---- MODULE Spec2Model ----
(***************************************************************************)
(* Extraction tracking of aa-moonmining: Owner.update_extractions_from_esi *)
(* (src/moonmining/models.py) folds the moon mining notifications of an    *)
(* owner into Extraction and ExtractionProduct rows.                       *)
(*                                                                         *)
(* The database is the state: the Refinery, Moon, Extraction and           *)
(* ExtractionProduct tables.  Django runs in autocommit mode and the       *)
(* method opens no transaction, so every statement that succeeded before   *)
(* an exception stays persisted.  One run of the method is modelled as a   *)
(* start action (fetch and sort) and one action per iteration of the for   *)
(* loop, the last of which returns.                                        *)
(*                                                                         *)
(* Environment: every request of that method to ESI may fail with OSError. *)
(* The code catches the OSError of the lookup of the starting character;   *)
(* those of the requests for the EveMoon and for an EveOreType leave the   *)
(* method.  The rows of eveuniverse that are stored need no request.       *)
(*                                                                         *)
(* SpecConcurrent covers two executions of the method side by side,        *)
(* statement by statement.  SpecValuation covers                           *)
(* update_calculated_properties of an extraction and of a moon, with       *)
(* floats as IEEE 754 doubles and the products in the order the query      *)
(* returns them.  SpecRefineries covers Owner.update_refineries_from_esi,  *)
(* where the structure list request, the details request, the request for  *)
(* the solar system and the nearest celestial lookup may each fail with    *)
(* OSError, together with the extraction runs that follow it.  SpecUpdates *)
(* covers the regular updates of src/moonplanner/tasks.py for two          *)
(* corporations: run_regular_updates, the admin action and the task chains *)
(* they queue, statement by statement, with the rows of the Owner table.   *)
(***************************************************************************)
EXTENDS Integers, Sequences, FiniteSets, TLC

\* longest notification list one fetch returns
MaxBatch == 3
\* number of runs of update_extractions_from_esi in one behaviour
MaxRuns == 2

\* An optional value is a set: Python None / SQL NULL is the empty set and
\* a present value x is {x}
None == {}
Some(x) == {x}
TheValue(v) == CHOOSE x \in v : TRUE
\* Python truthiness of an optional number: neither None nor 0
Truthy(v) == v # None /\ v # Some(0)

NotifTypes ==
    { "MoonminingAutomaticFracture", "MoonminingExtractionCancelled",
      "MoonminingExtractionFinished", "MoonminingExtractionStarted",
      "MoonminingLaserFired" }

----------------------------------------------------------------------------
\* Reference data and input domains

\* timestamps of the notifications
Timestamps == {1, 2}

\* LDAP times are counted in ticks of 100 ns
TicksPerMicrosecond == 10

MicrosecondsPerSecond == 1000000

\* a conversion that drops the part of a second
ldap_time_2_datetime_whole_seconds(ldap_dt) ==
    ((ldap_dt \div TicksPerMicrosecond) \div MicrosecondsPerSecond)
        * MicrosecondsPerSecond

\* app_utils.datetime.ldap_time_2_datetime: ticks to a datetime of
\* microsecond resolution (as microseconds; the epoch shift is a constant
\* offset and is left out)
ldap_time_2_datetime(ldap_dt) == ldap_dt \div TicksPerMicrosecond

\* EveOreType rows (EveType.volume: cubic meters per unit, a nullable
\* column).  Type 45491 is stored with volume 0 and type 45493 without a
\* volume.
EveTypeVolume ==
    (45506 :> Some(10) @@ 46676 :> Some(10) @@ 46281 :> Some(10)
        @@ 46283 :> Some(10) @@ 22 :> Some(16)
        @@ 45497 :> Some(10) @@ 46296 :> Some(10) @@ 46316 :> Some(10)
        @@ 45491 :> Some(0) @@ 45493 :> None)

\* EveType.eve_group_id of the ore types: the five groups of moon ores and
\* two groups of ordinary asteroid ores (450, 451)
EveTypeGroup ==
    (45506 :> 1922 @@ 46676 :> 451 @@ 46281 :> 1884 @@ 46283 :> 1884
        @@ 22 :> 450 @@ 45497 :> 1920 @@ 46296 :> 1921 @@ 46316 :> 1923
        @@ 45491 :> 1884 @@ 45493 :> 1884)

\* EveTypeMaterial rows of an ore type, in the order in which the query
\* self.materials returns them: material type and quantity per
\* reprocessing batch
OreMaterials(ore_type) ==
    CASE ore_type = 45506 -> << [material |-> 16637, quantity |-> 20],
                                [material |-> 16646, quantity |-> 10],
                                [material |-> 16635, quantity |-> 30] >>
      [] ore_type = 46676 -> << [material |-> 35, quantity |-> 40] >>
      [] ore_type = 46281 -> << [material |-> 16635, quantity |-> 30] >>
      [] ore_type = 45497 -> << [material |-> 34, quantity |-> 15],
                                [material |-> 36, quantity |-> 25] >>
      [] ore_type = 46296 -> << [material |-> 34, quantity |-> 15],
                                [material |-> 35, quantity |-> 40],
                                [material |-> 16646, quantity |-> 3] >>
      [] ore_type = 46316 -> << [material |-> 16637, quantity |-> 7] >>
      [] ore_type \in {45491, 45493} ->
                             << [material |-> 34, quantity |-> 15] >>
      [] OTHER -> << >>

\* EveMarketPrice rows: average_price of the materials that have a price
\* row (the price itself may be null or 0); material 35 has no row
EveMarketPrice ==
    (16637 :> Some(7) @@ 16646 :> Some(9) @@ 16635 :> None
        @@ 34 :> Some(5) @@ 36 :> Some(0))

\* MOONMINING_REPROCESSING_YIELD, in percent
ReprocessingYieldPct == 70

\* MOONMINING_VOLUME_PER_MONTH, cubic meters
VolumePerMonth == 1000000

\* volumes of the products of an extraction whose value is calculated
Volumes == {1000, 3000}

\* MoonProduct.amount, in percent of the ore of the moon
Amounts == {20, 50}

\* the reprocessing yields calc_refined_value is called with, in percent:
\* None (the argument is left out), 0, a half and the whole
Yields == {None, Some(0), Some(50), Some(100)}

----------------------------------------------------------------------------
\* Notifications as _fetch_moon_notifications_from_esi returns them: type,
\* timestamp and the parsed YAML text.  A key that a notification does not
\* carry is absent from the DOMAIN of its text.

\* oreVolumeByType: the (ore type id, volume) items of the mapping, in the
\* order in which the text lists them (the order in which .items() yields
\* them); an ore type is listed once
OresA == << << 45506, 1000 >>, << 46676, 2000 >> >>
OresB == << << 45506, 3000 >> >>
\* the ores of OresA, the text listing 46676 first
OresC == << << 46676, 2000 >>, << 45506, 1000 >> >>

StartedTexts ==
    { [structureID |-> 1, moonID |-> 40161708, readyTime |-> 1000,
       autoTime |-> 1300, startedBy |-> 1001, oreVolumeByType |-> OresA],
      \* the same microsecond as readyTime 1000, four ticks later
      [structureID |-> 1, moonID |-> 40161708, readyTime |-> 1004,
       autoTime |-> 1400, oreVolumeByType |-> OresB],
      [structureID |-> 1, moonID |-> 40161708, readyTime |-> 2000,
       autoTime |-> 2300, oreVolumeByType |-> OresB],
      [structureID |-> 2, moonID |-> 40161709, readyTime |-> 1000,
       autoTime |-> 1300, oreVolumeByType |-> OresC],
      \* a text that lacks readyTime
      [structureID |-> 1, moonID |-> 40161708,
       autoTime |-> 1300, oreVolumeByType |-> OresB] }

CancelledTexts ==
    { [structureID |-> 1, moonID |-> 40161708, cancelledBy |-> 1002] }

FinishedTexts ==
    { [structureID |-> 1, moonID |-> 40161708, oreVolumeByType |-> OresA] }

LaserFiredTexts ==
    { [structureID |-> 1, moonID |-> 40161708, firedBy |-> 1003],
      \* a text that lacks structureID
      [moonID |-> 40161708, firedBy |-> 1003] }

AutomaticFractureTexts ==
    { [structureID |-> 1, moonID |-> 40161708, oreVolumeByType |-> OresA] }

TextsOfType(type) ==
    CASE type = "MoonminingExtractionStarted" -> StartedTexts
      [] type = "MoonminingExtractionCancelled" -> CancelledTexts
      [] type = "MoonminingExtractionFinished" -> FinishedTexts
      [] type = "MoonminingLaserFired" -> LaserFiredTexts
      [] type = "MoonminingAutomaticFracture" -> AutomaticFractureTexts

Notifications ==
    UNION { { [type |-> type, timestamp |-> ts, text |-> text] :
                ts \in Timestamps, text \in TextsOfType(type) } :
            type \in NotifTypes }

\* every notification list of at most MaxBatch entries
Batches == UNION { [1..n -> Notifications] : n \in 0..MaxBatch }

----------------------------------------------------------------------------
\* sorted(notifications, key=lambda k: k["timestamp"]): Python's sort is
\* stable, entries of equal timestamp keep their input order

RECURSIVE InsertBeforeTies(_, _)
\* mutation: an entry goes before the entries of equal timestamp
InsertBeforeTies(sorted, n) ==
    IF sorted = << >> THEN << n >>
    ELSE IF Head(sorted).timestamp < n.timestamp
         THEN << Head(sorted) >> \o InsertBeforeTies(Tail(sorted), n)
         ELSE << n >> \o sorted

RECURSIVE InsertByTimestamp(_, _)
\* a sorted list with one more notification, placed after the entries whose
\* timestamp is not greater
InsertByTimestamp(sorted, n) ==
    IF sorted = << >> THEN << n >>
    ELSE IF Head(sorted).timestamp <= n.timestamp
         THEN << Head(sorted) >> \o InsertByTimestamp(Tail(sorted), n)
         ELSE << n >> \o sorted

\* mutation: the list is walked in arrival order
NotSorted(notifications) == notifications

RECURSIVE SortedByTimestamp(_)
SortedByTimestamp(notifications) ==
    IF notifications = << >> THEN << >>
    ELSE InsertByTimestamp(
             SortedByTimestamp(SubSeq(notifications, 1, Len(notifications) - 1)),
             notifications[Len(notifications)])

----------------------------------------------------------------------------
\* Valuation and classification of products

\* A Python float is an IEEE 754 double.  The model holds the finite
\* doubles that are not negative, each as [m, e] with the value m * 2^e: m
\* is a natural number of at most 53 bits, written as its digits to the
\* base 2^15 from the lowest to the highest (<< >> is 0), and is odd unless
\* the value is 0 (then e = 0), so that a double has one record.  Every
\* operation returns the double nearest to the exact result, a tie going to
\* the even mantissa, as the hardware does; the exponents of the model stay
\* far from overflow and from the subnormal range.

LimbBits == 15
LimbBase == 32768
MantissaBits == 53

\* a natural number without leading zero digits
RECURSIVE Trim(_)
Trim(a) ==
    IF a = << >> THEN << >>
    ELSE IF a[Len(a)] = 0 THEN Trim(SubSeq(a, 1, Len(a) - 1)) ELSE a

\* the digits of a natural number that fits a machine word
RECURSIVE BigOf(_)
BigOf(n) ==
    IF n = 0 THEN << >> ELSE << n % LimbBase >> \o BigOf(n \div LimbBase)

\* the natural number of a short digit sequence
RECURSIVE IntOfBig(_)
IntOfBig(a) ==
    IF a = << >> THEN 0 ELSE Head(a) + LimbBase * IntOfBig(Tail(a))

LimbOr0(a) == IF a = << >> THEN 0 ELSE Head(a)
Rest(a) == IF a = << >> THEN << >> ELSE Tail(a)

RECURSIVE BigAddCarry(_, _, _)
BigAddCarry(a, b, carry) ==
    IF a = << >> /\ b = << >> THEN BigOf(carry)
    ELSE LET limb == LimbOr0(a) + LimbOr0(b) + carry
         IN << limb % LimbBase >>
                \o BigAddCarry(Rest(a), Rest(b), limb \div LimbBase)

BigAdd(a, b) == BigAddCarry(a, b, 0)

RECURSIVE BigSubBorrow(_, _, _)
BigSubBorrow(a, b, borrow) ==
    IF a = << >> THEN << >>
    ELSE LET limb == Head(a) - LimbOr0(b) - borrow
         IN << limb % LimbBase >>
                \o BigSubBorrow(Tail(a), Rest(b), IF limb < 0 THEN 1 ELSE 0)

\* a - b for a >= b
BigSub(a, b) == Trim(BigSubBorrow(a, b, 0))

\* a <= b
RECURSIVE BigLeq(_, _)
BigLeq(a, b) ==
    IF Len(a) # Len(b) THEN Len(a) < Len(b)
    ELSE IF a = << >> THEN TRUE
    ELSE IF a[Len(a)] # b[Len(b)] THEN a[Len(a)] < b[Len(b)]
    ELSE BigLeq(SubSeq(a, 1, Len(a) - 1), SubSeq(b, 1, Len(b) - 1))

RECURSIVE BigMulSmallCarry(_, _, _)
BigMulSmallCarry(a, k, carry) ==
    IF a = << >> THEN BigOf(carry)
    ELSE LET limb == Head(a) * k + carry
         IN << limb % LimbBase >>
                \o BigMulSmallCarry(Tail(a), k, limb \div LimbBase)

\* a * k for one digit k
BigMulSmall(a, k) == Trim(BigMulSmallCarry(a, k, 0))

\* a * LimbBase
TimesBase(a) == IF a = << >> THEN << >> ELSE << 0 >> \o a

RECURSIVE BigMul(_, _)
BigMul(a, b) ==
    IF a = << >> \/ b = << >> THEN << >>
    ELSE BigAdd(BigMulSmall(a, Head(b)), TimesBase(BigMul(a, Tail(b))))

\* a step of the short division
DivSmallStep(q, limb, k) == [q |-> << limb \div k >> \o q, r |-> limb % k]

DivSmallLimb(hi, limb, k) == DivSmallStep(hi.q, hi.r * LimbBase + limb, k)

RECURSIVE BigDivSmallR(_, _)
BigDivSmallR(a, k) ==
    IF a = << >> THEN [q |-> << >>, r |-> 0]
    ELSE DivSmallLimb(BigDivSmallR(Tail(a), k), Head(a), k)

\* a quotient without leading zero digits
TrimQuotient(d) == [q |-> Trim(d.q), r |-> d.r]

\* quotient and remainder of a by one digit k > 0
BigDivSmall(a, k) == TrimQuotient(BigDivSmallR(a, k))

\* the greatest digit d + j, j < 2^(i+1), with b * (d + j) <= a
RECURSIVE Digit(_, _, _, _)
Digit(a, b, d, i) ==
    IF i < 0 THEN d
    ELSE IF BigLeq(BigMulSmall(b, d + 2^i), a)
         THEN Digit(a, b, d + 2^i, i - 1)
         ELSE Digit(a, b, d, i - 1)

\* The long division of a by b > 0, from the highest digit of a down.  at
\* holds the digits q of the quotient so far, the remainder r so far and
\* the place i of the next digit of a.

\* the step that has found d, the next digit of the quotient: part is the
\* remainder so far with the next digit of a below it
DivStep(at, part, b, d) ==
    [q |-> << d >> \o at.q, r |-> BigSub(part, BigMulSmall(b, d)),
     i |-> at.i - 1]

DivPart(at, part, b) == DivStep(at, part, b, Digit(part, b, 0, LimbBits - 1))

RECURSIVE DivFrom(_, _, _)
DivFrom(at, a, b) ==
    IF at.i = 0 THEN at
    ELSE DivFrom(DivPart(at, Trim(<< a[at.i] >> \o at.r), b), a, b)

\* quotient and remainder of a by b > 0
BigDivMod(a, b) ==
    TrimQuotient(DivFrom([q |-> << >>, r |-> << >>, i |-> Len(a)], a, b))

RECURSIVE BitsOf(_)
BitsOf(limb) == IF limb = 0 THEN 0 ELSE 1 + BitsOf(limb \div 2)

\* the number of bits of a natural number
BitLen(a) ==
    IF a = << >> THEN 0 ELSE LimbBits * (Len(a) - 1) + BitsOf(a[Len(a)])

\* a * 2^s
ShiftLeft(a, s) ==
    IF a = << >> THEN << >>
    ELSE [i \in 1..(s \div LimbBits) |-> 0] \o BigMulSmall(a, 2^(s % LimbBits))

\* d: quotient and remainder of the digits kept by a shift to the right,
\* dropped: the digits below them
Shifted(d, dropped) ==
    [q |-> d.q,
     sticky |-> d.r # 0 \/ \E i \in DOMAIN dropped : dropped[i] # 0]

\* a \div 2^s, and whether a bit was lost
ShiftRight(a, s) ==
    Shifted(BigDivSmall(SubSeq(a, s \div LimbBits + 1, Len(a)),
                        2^(s % LimbBits)),
            SubSeq(a, 1, IF s \div LimbBits < Len(a)
                         THEN s \div LimbBits ELSE Len(a)))

\* the record of the value m * 2^e
RECURSIVE Canonical(_, _)
Canonical(m, e) ==
    IF m = << >> THEN [m |-> << >>, e |-> 0]
    ELSE IF Head(m) = 0 THEN Canonical(Tail(m), e + LimbBits)
    ELSE IF Head(m) % 2 = 0 THEN Canonical(BigDivSmall(m, 2).q, e + 1)
    ELSE [m |-> m, e |-> e]

\* half: a mantissa of 54 bits as quotient q and remainder r of the
\* division by 2; the mantissa of 53 bits nearest to it, ties to even
RoundedHalf(half, sticky) ==
    IF half.r = 1 /\ (sticky \/ LimbOr0(half.q) % 2 = 1)
    THEN BigAdd(half.q, << 1 >>) ELSE half.q

\* p, a number of n bits, cut to 54 bits, and whether a bit was lost
Cut(p, n) == ShiftRight(p, n - MantissaBits - 1)

\* the mantissa of the double nearest to cut.q / 2 or to a value just
\* above it
RoundedCut(cut, sticky) ==
    RoundedHalf(BigDivSmall(cut.q, 2), cut.sticky \/ sticky)

\* Rounded for p of n bits
RoundedBits(p, e, sticky, n) ==
    Canonical(IF n <= MantissaBits THEN p
              ELSE RoundedCut(Cut(p, n), sticky),
              IF n <= MantissaBits THEN e ELSE e + n - MantissaBits)

\* the double nearest to p * 2^e, or to a value just above it (sticky),
\* ties to even
Rounded(p, e, sticky) == RoundedBits(p, e, sticky, BitLen(p))

\* A division by zero raises ZeroDivisionError; the exception leaves every
\* expression it occurs in, so it is carried through the arithmetic as a
\* value that is no double.
ZeroDivisionError == [m |-> << -1 >>, e |-> 0]

\* float(n) of an int n >= 0 that a double holds exactly
Number(n) == Canonical(BigOf(n), 0)

\* a + b
Plus(a, b) ==
    IF a = ZeroDivisionError \/ b = ZeroDivisionError THEN ZeroDivisionError
    ELSE LET e == IF a.e < b.e THEN a.e ELSE b.e
         IN Rounded(BigAdd(ShiftLeft(a.m, a.e - e), ShiftLeft(b.m, b.e - e)),
                    e, FALSE)

\* a * b
Times(a, b) ==
    IF a = ZeroDivisionError \/ b = ZeroDivisionError THEN ZeroDivisionError
    ELSE Rounded(BigMul(a.m, b.m), a.e + b.e, FALSE)

\* the double nearest to the quotient whose first bits are d.q, d.r its
\* remainder
RoundedQuotient(d, e) == Rounded(d.q, e, d.r # << >>)

\* a / b from the integer division of a.m * 2^k by b.m, whose quotient has
\* more bits than a mantissa
Quotient(a, b, k) ==
    RoundedQuotient(BigDivMod(ShiftLeft(a.m, k), b.m), a.e - b.e - k)

\* a / b
DividedBy(a, b) ==
    IF a = ZeroDivisionError \/ b = ZeroDivisionError \/ b.m = << >>
    THEN ZeroDivisionError
    ELSE Quotient(a, b, MantissaBits + 2 + BitLen(b.m) - BitLen(a.m))

\* the double that the decimal literal of num / den denotes (0.7 for 70 and
\* 100): the double nearest to the quotient
Frac(num, den) == DividedBy(Number(num), Number(den))

\* Python's sum() over a list: 0 + x1 + x2 + ..., added from the left
RECURSIVE sum_of(_)
sum_of(numbers) ==
    IF numbers = << >> THEN Number(0)
    ELSE Plus(sum_of(SubSeq(numbers, 1, Len(numbers) - 1)),
              numbers[Len(numbers)])

HasPriceRow(m) ==
    /\ m.material \in DOMAIN EveMarketPrice
    /\ Truthy(EveMarketPrice[m.material])

\* a loop that gives up at the first material without a price: nothing is
\* added up unless every material has one
PricedMaterials_unless_one_is_missing(ore_type) ==
    IF \A i \in DOMAIN OreMaterials(ore_type) :
          HasPriceRow(OreMaterials(ore_type)[i])
    THEN OreMaterials(ore_type) ELSE << >>

\* the materials of an ore type that the loop of calc_refined_value adds
\* up, in the order of the loop: those with a market price row whose
\* average_price is neither null nor 0
PricedMaterials(ore_type) == SelectSeq(OreMaterials(ore_type), HasPriceRow)

\* the loop without the reference batch: the units are not divided by 100
refined_value_of_materials_per_unit(ore_type, volume, yield, volume_per_unit) ==
    LET units == DividedBy(volume, volume_per_unit)
        priced == PricedMaterials(ore_type)
    IN sum_of([i \in DOMAIN priced |->
           Times(Times(Times(Number(TheValue(EveMarketPrice[priced[i].material])),
                             Number(priced[i].quantity)),
                       units),
                 yield)])

\* calc_refined_value from line 159 on, for a type whose volume per unit
\* is volume_per_unit: value starts at 0 and the loop adds to it, material
\* by material, price * quantity * r_units * reprocessing_yield,
\* multiplied from the left
refined_value_of_materials(ore_type, volume, yield, volume_per_unit) ==
    LET units == DividedBy(volume, volume_per_unit)
        r_units == DividedBy(units, Number(100))
        priced == PricedMaterials(ore_type)
    IN sum_of([i \in DOMAIN priced |->
           Times(Times(Times(Number(TheValue(EveMarketPrice[priced[i].material])),
                             Number(priced[i].quantity)),
                       r_units),
                 yield)])

\* calc_refined_value without the test of self.volume: a missing volume
\* divides like 0
calc_refined_value_unguarded(ore_type, volume, reprocessing_yield) ==
    refined_value_of_materials(
        ore_type, volume,
        IF ~Truthy(reprocessing_yield) THEN Frac(ReprocessingYieldPct, 100)
        ELSE Frac(TheValue(reprocessing_yield), 100),
        IF EveTypeVolume[ore_type] = None THEN Number(0)
        ELSE Number(TheValue(EveTypeVolume[ore_type])))

\* EveOreType.calc_refined_value: volume is a float, the yield is given in
\* percent (None: the default MOONMINING_REPROCESSING_YIELD)
calc_refined_value(ore_type, volume, reprocessing_yield) ==
    LET yield == IF ~Truthy(reprocessing_yield)
                 THEN Frac(ReprocessingYieldPct, 100)
                 ELSE Frac(TheValue(reprocessing_yield), 100)
    IN IF ~Truthy(EveTypeVolume[ore_type])
       THEN Number(0)
       ELSE refined_value_of_materials(
                ore_type, volume, yield,
                Number(TheValue(EveTypeVolume[ore_type])))

\* the volumes calc_refined_value is called with: those of the products of
\* the extractions and total_volume * amount of the products of the moons
RefinedVolumes ==
    { Number(v) : v \in Volumes \cup {2000} }
        \cup { Times(Number(VolumePerMonth), Frac(a, 100)) : a \in Amounts }

\* what calc_refined_value returns for every ore type, volume and yield it
\* is called with, calculated once
RefinedValues ==
    [ore_type \in DOMAIN EveTypeVolume, volume \in RefinedVolumes,
     reprocessing_yield \in Yields |->
        calc_refined_value(ore_type, volume, reprocessing_yield)]

\* a call of calc_refined_value: its result, read from RefinedValues
refined_value(ore_type, volume, reprocessing_yield) ==
    RefinedValues[ore_type, volume, reprocessing_yield]

\* EveTypeDogmaAttribute.value (a float) of the dogma attribute
\* DOGMA_ATTRIBUTE_ID_ORE_QUALITY, for the ore types that have it: 1, 3
\* and 5 as in the game data, and 2 and 3.5 as values of no class
DogmaOreQuality ==
    (45506 :> Number(1) @@ 46676 :> Number(3) @@ 46281 :> Number(5)
        @@ 46283 :> Number(5) @@ 45497 :> Number(1) @@ 46296 :> Number(1)
        @@ 46316 :> Number(1) @@ 45491 :> Number(2) @@ 45493 :> Frac(7, 2))

\* Python's int() of a float that is not negative: the part after the point
\* is cut off
int_of(x) ==
    IF x.e >= 0 THEN IntOfBig(ShiftLeft(x.m, x.e))
    ELSE IntOfBig(ShiftRight(x.m, - x.e).q)

\* OreQualityClass.from_eve_type
OreQualityClass_from_eve_type(ore_type) ==
    IF ore_type \notin DOMAIN DogmaOreQuality THEN "UNDEFINED"
    ELSE LET value == int_of(DogmaOreQuality[ore_type])
         IN CASE value = 1 -> "REGULAR"
              [] value = 3 -> "IMPROVED"
              [] value = 5 -> "EXCELLENT"
              [] OTHER -> "UNDEFINED"

\* the ExtractionProduct rows of one extraction (extraction.products)
ProductsOf(products, pk) == { p \in products : p.extraction = pk }

\* the ore types that the notifications of the model list
ListedOreTypes ==
    UNION { { ores[i][1] : i \in DOMAIN ores } : ores \in {OresA, OresB, OresC} }

\* The query self.products states no order, so the database returns the
\* rows of an extraction in an order of its choice, query by query.  An
\* order is held as a list of the ore types: an extraction has one row per
\* ore type (unique constraint functional_pk_extractionproduct), and every
\* product of the runs is of a listed ore type.
QueryOrders ==
    { order \in [1..Cardinality(ListedOreTypes) -> ListedOreTypes] :
        \A i, j \in DOMAIN order : order[i] = order[j] => i = j }

\* the order that stands for all where no query is made
AnyOrder == CHOOSE order \in QueryOrders : TRUE

\* the rows of a set of products in the order the query returns them
InQueryOrder(rows, row_order) ==
    LET found == SelectSeq(row_order,
                           LAMBDA o : \E p \in rows : p.ore_type = o)
    IN [i \in DOMAIN found |->
           CHOOSE p \in rows : p.ore_type = found[i]]

\* Extraction.calc_value: sum of ExtractionProduct.calc_value over the rows
\* the query self.products returns, in the order it returns them
Extraction_calc_value(products, pk, row_order) ==
    LET rows == InQueryOrder(ProductsOf(products, pk), row_order)
    IN sum_of([i \in DOMAIN rows |->
           refined_value(rows[i].ore_type, Number(rows[i].volume), None)])

\* Extraction.calc_is_jackpot: all([...]) over the products
Extraction_calc_is_jackpot(products, pk) ==
    \A p \in ProductsOf(products, pk) :
        OreQualityClass_from_eve_type(p.ore_type) = "EXCELLENT"

----------------------------------------------------------------------------
\* The database and one run of Owner.update_extractions_from_esi

VARIABLES
    refinery_moon,      \* Refinery rows: id -> moon (optional)
    refinery_row,       \* Refinery rows: id -> the columns name, eve_type
                        \* and owner
    moons,              \* Moon rows (ids)
    eve_entities,       \* EveEntity rows (ids) already stored locally
    eve_universe,       \* rows of EveMoon, EveOreType and EveSolarSystem
                        \* (ids) already stored locally
    extractions,        \* Extraction rows
    products,           \* ExtractionProduct rows
    next_extraction_id, \* next primary key of the Extraction table
    pc,                 \* "idle", "running", "done" or "failed" (exception)
    notifications,      \* the list ESI returns for the character, as received
    queue,              \* sorted notifications the for loop has yet to visit
    last_extraction_started, \* the dict of the run: structure id -> pk of
                             \* the Extraction object (None once deleted)
    raised,             \* the exception that ended the run, "" if none
    runs,               \* runs started so far
    applied,            \* history: notifications the loop has visited
    at_start,           \* history: the database when the run began
    before,             \* history: the database before the iteration that
                        \* ran last
    valuation,          \* the extraction whose calculated properties are
                        \* updated (SpecValuation): its products in the
                        \* order the query returns them, and the results
    moon_valuation,     \* the moon whose calculated properties are updated
                        \* (SpecValuation): its products in the order the
                        \* query returns them, the columns of its row and
                        \* the exception that ended the update
    refinery_update,    \* the run of update_refineries_from_esi: where it
                        \* stands, the structures ESI listed and what
                        \* happened to each
    update_cycle,       \* the regular updates (SpecUpdates): the Owner
                        \* rows, the clock, the calls and tasks so far
                        \* and where each task chain stands
    workers             \* the executions that run side by side on the
                        \* database (SpecConcurrent, SpecUpdates): what
                        \* each holds in memory and where it stands

vars == << refinery_moon, refinery_row, moons, eve_entities, eve_universe,
           extractions, products, next_extraction_id,
           pc, notifications, queue, last_extraction_started, raised, runs,
           applied, at_start, before, workers, valuation,
           moon_valuation, refinery_update, update_cycle >>

\* no extraction is being valued
NoValuation ==
    [products |-> << >>, value |-> None, is_jackpot |-> None, done |-> FALSE,
     calls |-> 0]

\* no moon is being valued
NoMoonValuation ==
    [moon |-> None, products |-> << >>, value |-> None, rarity_class |-> 0,
     raised |-> "", done |-> FALSE, calls |-> 0]

\* no regular update is modelled
NoUpdateCycle ==
    [owners |-> << >>, chains |-> << >>, now |-> 0, calls |-> << >>,
     tasks |-> 0]

\* no run of update_refineries_from_esi has started.  pc is "idle",
\* "updating", "done" or "failed"; structures is the list ESI returned,
\* refineries the dict of the run, queue
\* the structures the for loop has yet to visit, visited the history of the
\* iterations, retry the refineries whose nearest celestial lookup raised
\* OSError in the run before
NoRefineryUpdate ==
    [pc |-> "idle", structures |-> << >>, refineries |-> << >>,
     queue |-> << >>, visited |-> << >>, retry |-> {}, raised |-> "",
     runs |-> 0]

\* the part of the state that the for loop reads and writes
Database ==
    [ refinery_moon |-> refinery_moon, refinery_row |-> refinery_row,
      moons |-> moons,
      eve_entities |-> eve_entities, eve_universe |-> eve_universe,
      extractions |-> extractions, products |-> products,
      next_extraction_id |-> next_extraction_id,
      last_extraction_started |-> last_extraction_started,
      raised |-> "" ]

Raise(db, exception) == [db EXCEPT !.raised = exception]

\* the columns name, eve_type and owner of a Refinery row
RefineryRow(name, eve_type, owner) ==
    [name |-> name, eve_type |-> eve_type, owner |-> owner]

\* the Refinery object that a SELECT of the row loads
Refinery_get(db, structure_id) ==
    [id |-> structure_id,
     name |-> db.refinery_row[structure_id].name,
     eve_type |-> db.refinery_row[structure_id].eve_type,
     owner |-> db.refinery_row[structure_id].owner,
     moon |-> db.refinery_moon[structure_id]]

\* get_or_create_esi of eveuniverse for an EveMoon, an EveOreType or an
\* EveSolarSystem (the ids of the three do not overlap): the stored row if
\* there is one, else a request to ESI that stores the row (esi_ok) or
\* raises OSError
get_or_create_esi(db, id, esi_ok) ==
    IF id \in db.eve_universe THEN db
    ELSE IF esi_ok THEN [db EXCEPT !.eve_universe = @ \cup {id}]
    ELSE Raise(db, "OSError")

\* Refinery.update_moon_from_eve_id (lines 580-584): nothing catches the
\* OSError of the request for the EveMoon; Refinery.moon is a
\* OneToOneField, so save() fails when another refinery holds the moon
Refinery_update_moon_from_eve_id(db, structure_id, eve_moon_id, esi_ok) ==
    LET eve_moon == get_or_create_esi(db, eve_moon_id, esi_ok)
        with_moon == [eve_moon EXCEPT !.moons = @ \cup {eve_moon_id}]
    IN IF eve_moon.raised # "" THEN eve_moon
       ELSE IF \E r \in DOMAIN db.refinery_moon :
                  r # structure_id /\ db.refinery_moon[r] = Some(eve_moon_id)
       THEN Raise(with_moon, "IntegrityError")
       ELSE [with_moon EXCEPT !.refinery_moon[structure_id] = Some(eve_moon_id)]

\* mutation: create() in place of get_or_create()
Extraction_always_create(db, refinery, ready_time, auto_time, started_by) ==
    [db |-> [db EXCEPT
               !.extractions = @ \cup
                   { [id |-> db.next_extraction_id,
                      refinery |-> refinery,
                      ready_time |-> ready_time,
                      auto_time |-> auto_time,
                      started_by |-> started_by,
                      value |-> None,
                      is_jackpot |-> None] },
               !.next_extraction_id = @ + 1],
     pk |-> db.next_extraction_id]

\* Extraction.objects.get_or_create(refinery=, ready_time=, defaults=)
Extraction_get_or_create(db, refinery, ready_time, auto_time, started_by) ==
    LET found == { e \in db.extractions :
                     e.refinery = refinery /\ e.ready_time = ready_time }
    IN IF found # {}
       THEN [db |-> db, pk |-> (CHOOSE e \in found : TRUE).id]
       ELSE [db |-> [db EXCEPT
                       !.extractions = @ \cup
                           { [id |-> db.next_extraction_id,
                              refinery |-> refinery,
                              ready_time |-> ready_time,
                              auto_time |-> auto_time,
                              started_by |-> started_by,
                              value |-> None,
                              is_jackpot |-> None] },
                       !.next_extraction_id = @ + 1],
             pk |-> db.next_extraction_id]

\* create() in place of get_or_create(), on a table without the unique
\* constraint
ExtractionProduct_create(rows, pk, ore_volume_by_type) ==
    rows \cup
    { [extraction |-> pk, ore_type |-> ore_volume_by_type[i][1],
       volume |-> ore_volume_by_type[i][2]] :
        i \in DOMAIN ore_volume_by_type }

\* ExtractionProduct.objects.get_or_create (lines 478-482) for the items of
\* a list
ExtractionProduct_get_or_create(rows, pk, ore_volume_by_type) ==
    rows \cup
    { [extraction |-> pk, ore_type |-> ore_volume_by_type[i][1],
       volume |-> ore_volume_by_type[i][2]] :
        i \in { j \in DOMAIN ore_volume_by_type :
                   ~ \E p \in rows : /\ p.extraction = pk
                                     /\ p.ore_type
                                            = ore_volume_by_type[j][1] } }

\* Extraction.update_calculated_properties
Extraction_update_calculated_properties(db, pk, row_order) ==
    [db EXCEPT !.extractions =
        { IF e.id = pk
          THEN [e EXCEPT !.value = Some(Extraction_calc_value(
                                            db.products, pk, row_order)),
                         !.is_jackpot =
                             Some(Extraction_calc_is_jackpot(db.products, pk))]
          ELSE e : e \in @ }]

\* Extraction.delete() on the object kept in last_extraction_started:
\* Django refuses an object whose pk is None, deletes the row and its
\* products (CASCADE) and sets the pk of the object to None
Extraction_delete(db, structure_id) ==
    LET pk == db.last_extraction_started[structure_id]
    IN IF pk = None
       THEN Raise(db, "ValueError")
       ELSE [db EXCEPT
               !.extractions = { e \in @ : e.id # TheValue(pk) },
               !.products = { p \in @ : p.extraction # TheValue(pk) },
               !.last_extraction_started[structure_id] = None]

\* EveEntity.objects.get_or_create_esi(id=): the stored row if there is
\* one, else a fetch from ESI that stores the row (esi_ok) or fails with
\* OSError; entity: the object returned, None after OSError
EveEntity_get_or_create_esi(db, id, esi_ok) ==
    IF id \in db.eve_entities THEN [db |-> db, entity |-> Some(id)]
    ELSE IF esi_ok
    THEN [db |-> [db EXCEPT !.eve_entities = @ \cup {id}], entity |-> Some(id)]
    ELSE [db |-> db, entity |-> None]

\* the most ore types a notification lists
MaxOres == Cardinality(ListedOreTypes)

\* what the outside answers during one iteration of the for loop.  A
\* request to ESI is answered or raises OSError: moon_ok for the EveMoon
\* (line 581), esi_ok for the starting character (line 459), and
\* ore_types_ok counts the requests for an EveOreType (line 477) that are
\* answered before one raises.  row_order is the order in which the
\* database returns the products to calc_value.
Answers ==
    [moon_ok : BOOLEAN, esi_ok : BOOLEAN, ore_types_ok : 0..MaxOres,
     row_order : QueryOrders]

\* the product loop (lines 476-482) over the items of oreVolumeByType that
\* it has yet to visit; answered: the requests for an ore type that ESI
\* still answers.  Nothing catches the OSError of such a request.
RECURSIVE process_products(_, _, _, _)
process_products(db, pk, ore_volume_by_type, answered) ==
    IF ore_volume_by_type = << >> THEN db
    ELSE LET item == Head(ore_volume_by_type)
             ore_type == get_or_create_esi(db, item[1], answered > 0)
         IN IF ore_type.raised # "" THEN ore_type
            ELSE process_products(
                     [ore_type EXCEPT !.products =
                         ExtractionProduct_get_or_create(@, pk, << item >>)],
                     pk, Tail(ore_volume_by_type),
                     IF item[1] \in db.eve_universe THEN answered
                     ELSE answered - 1)

\* the MoonminingExtractionStarted branch (lines 453-483)
process_started(db, parsed_text, structure_id, answer) ==
    LET started_by_id == IF "startedBy" \in DOMAIN parsed_text
                         THEN Some(parsed_text.startedBy) ELSE None
        looked_up == IF Truthy(started_by_id)
                     THEN EveEntity_get_or_create_esi(
                              db, TheValue(started_by_id), answer.esi_ok)
                     ELSE [db |-> db, entity |-> None]
        started_by == looked_up.entity
    IN IF structure_id \notin DOMAIN db.refinery_moon
       THEN db
       ELSE IF "readyTime" \notin DOMAIN parsed_text
               \/ "autoTime" \notin DOMAIN parsed_text
       THEN Raise(looked_up.db, "KeyError")
       ELSE
         LET got == Extraction_get_or_create(
                        looked_up.db, structure_id,
                        ldap_time_2_datetime(parsed_text.readyTime),
                        ldap_time_2_datetime(parsed_text.autoTime),
                        started_by)
             remembered ==
                 [got.db EXCEPT !.last_extraction_started =
                     (structure_id :> Some(got.pk)) @@ @]
         IN IF "oreVolumeByType" \notin DOMAIN parsed_text
            THEN Raise(remembered, "KeyError")
            ELSE LET stored == process_products(
                                   remembered, got.pk,
                                   parsed_text.oreVolumeByType,
                                   answer.ore_types_ok)
                 IN IF stored.raised # "" THEN stored
                    ELSE Extraction_update_calculated_properties(
                             stored, got.pk, answer.row_order)

\* a Cancelled branch that deletes every extraction of the structure
process_cancelled_every_extraction(db, structure_id) ==
    IF structure_id \in DOMAIN db.last_extraction_started
    THEN LET gone == { e \in db.extractions : e.refinery = structure_id }
         IN [db EXCEPT
               !.extractions = @ \ gone,
               !.products = { p \in @ : \A e \in gone : e.id # p.extraction },
               !.last_extraction_started[structure_id] = None]
    ELSE db

\* the MoonminingExtractionCancelled branch (lines 487-490)
process_cancelled(db, structure_id) ==
    IF structure_id \in DOMAIN db.last_extraction_started
    THEN Extraction_delete(db, structure_id)
    ELSE db

\* the MoonminingExtractionFinished branch (lines 492-494)
process_finished(db, structure_id) ==
    IF structure_id \in DOMAIN db.last_extraction_started
    THEN [db EXCEPT !.last_extraction_started =
             [s \in DOMAIN @ \ {structure_id} |-> @[s]]]
    ELSE db

\* the moon update at the head of the loop body (lines 443-451)
process_moon(db, parsed_text, structure_id, answer) ==
    IF /\ structure_id \in DOMAIN db.refinery_moon
       /\ db.refinery_moon[structure_id] = None
    THEN IF "moonID" \notin DOMAIN parsed_text
         THEN Raise(db, "KeyError")
         ELSE Refinery_update_moon_from_eve_id(
                  db, structure_id, parsed_text.moonID, answer.moon_ok)
    ELSE db

\* one iteration of the for loop (lines 442-494)
process_notification(db, notification, answer) ==
    LET parsed_text == notification.text
    IN IF "structureID" \notin DOMAIN parsed_text
       THEN Raise(db, "KeyError")
       ELSE
         LET structure_id == parsed_text.structureID
             linked == process_moon(db, parsed_text, structure_id, answer)
         IN IF linked.raised # "" THEN linked
            ELSE CASE notification.type = "MoonminingExtractionStarted" ->
                        process_started(linked, parsed_text, structure_id,
                                        answer)
                   [] notification.type = "MoonminingExtractionCancelled" ->
                        process_cancelled(linked, structure_id)
                   [] notification.type = "MoonminingExtractionFinished" ->
                        process_finished(linked, structure_id)
                   [] OTHER -> linked

\* ESI answers every request of an iteration; the database returns the
\* products in the order row_order
Answered(row_order) ==
    [moon_ok |-> TRUE, esi_ok |-> TRUE, ore_types_ok |-> MaxOres,
     row_order |-> row_order]

\* the answers to what the iteration over a notification asks of the
\* outside: a request that the iteration does not send and a query that it
\* does not make have no answer to choose (the fields are still filled, as
\* in Answered).  The request for the EveMoon is sent for a known
\* refinery without moon whose EveMoon is not stored, those of the
\* Started branch for a known refinery: for a starting character that is
\* not stored and for the ore types that are not stored.
AnswersTo(db, notification) ==
    LET parsed_text == notification.text
        known == /\ "structureID" \in DOMAIN parsed_text
                 /\ parsed_text.structureID \in DOMAIN db.refinery_moon
        asks_moon == /\ known
                     /\ db.refinery_moon[parsed_text.structureID] = None
                     /\ "moonID" \in DOMAIN parsed_text
                     /\ parsed_text.moonID \notin db.eve_universe
        started == /\ known
                   /\ notification.type = "MoonminingExtractionStarted"
        asks_character == /\ started
                          /\ "startedBy" \in DOMAIN parsed_text
                          /\ parsed_text.startedBy \notin db.eve_entities
        asked_ores == IF started /\ "oreVolumeByType" \in DOMAIN parsed_text
                      THEN { parsed_text.oreVolumeByType[i][1] :
                               i \in DOMAIN parsed_text.oreVolumeByType }
                           \ db.eve_universe
                      ELSE {}
    IN { answer \in Answers :
           /\ asks_moon \/ answer.moon_ok
           /\ asks_character \/ answer.esi_ok
           /\ \/ answer.ore_types_ok = MaxOres
              \/ answer.ore_types_ok < Cardinality(asked_ores)
           /\ started \/ answer.row_order = AnyOrder }

\* the answers of the outside during a run over n notifications: one per
\* iteration of the for loop, as every iteration makes its own requests
\* and its own query for the products
EsiAnswers(n) == [1..n -> Answers]

\* the outside gives the same answer in every iteration of a run over n
\* notifications
EveryLookup(n, answer) == [i \in 1..n |-> answer]

\* the for loop as a function of the database: the iterations over a sorted
\* list, stopped by the first exception; answers holds the answer of the
\* outside for each iteration
RECURSIVE process_all(_, _, _)
process_all(db, sorted, answers) ==
    IF sorted = << >> THEN db
    ELSE LET done == process_notification(db, Head(sorted), Head(answers))
         IN IF done.raised # "" THEN done
            ELSE process_all(done, Tail(sorted), Tail(answers))

\* one whole run of update_extractions_from_esi over a fetched list;
\* answers holds the answer of the outside for each iteration of the loop
\* over the sorted list
update_extractions_from_esi(db, fetched, answers) ==
    process_all([db EXCEPT !.last_extraction_started = << >>, !.raised = ""],
                SortedByTimestamp(fetched), answers)

----------------------------------------------------------------------------
\* Initial databases: what earlier runs of update_refineries_from_esi and
\* update_extractions_from_esi can have left behind

\* the owner (the Owner row, self) whose refineries the runs update
RefineryOwner == 2001

\* the structures and their types: three Athanors (35835) and an Astrahus
\* (35832)
StructureTypes == (1 :> 35835 @@ 2 :> 35835 @@ 3 :> 35832 @@ 4 :> 35835)

\* the structures that ESI lists for the owner: structure 4 is the
\* Athanor of the second corporation of the regular updates
ListedStructures == {1, 2, 3}

\* the name of a structure as get_universe_structures_structure_id returns
\* it
StructureNames ==
    (1 :> "Athanor 1" @@ 2 :> "Athanor 2" @@ 3 :> "Astrahus 3"
        @@ 4 :> "Athanor 4")

\* structure_info["solar_system_id"]: the structures stand in one system
SolarSystem == 30002537

\* the row a MoonminingExtractionStarted notification of an earlier run
\* created for refinery 1
EarlierExtraction ==
    [id |-> 1, refinery |-> 1, ready_time |-> ldap_time_2_datetime(1000),
     auto_time |-> ldap_time_2_datetime(1300), started_by |-> Some(1001),
     value |-> Some(Extraction_calc_value(
                   ExtractionProduct_get_or_create({}, 1, OresA), 1,
                   << 45506, 46676 >>)),
     is_jackpot |-> Some(FALSE)]

InitialDatabases ==
    { \* refinery 1 without moon, as a run of update_refineries_from_esi
      \* leaves it whose request for the solar system raised OSError;
      \* structure 2 unknown, no extraction yet
      [refinery_moon |-> (1 :> None),
       refinery_row |-> (1 :> RefineryRow("Athanor 1", 35835, RefineryOwner)),
       moons |-> {}, eve_entities |-> {}, eve_universe |-> {},
       extractions |-> {}, products |-> {}, next_extraction_id |-> 1],
      \* both refineries known and linked, refinery 2 under the name it had
      \* before it was renamed, one extraction already tracked
      [refinery_moon |-> (1 :> Some(40161708) @@ 2 :> Some(40161709)),
       refinery_row |->
           (1 :> RefineryRow("Athanor 1", 35835, RefineryOwner)
              @@ 2 :> RefineryRow("Athanor", 35835, RefineryOwner)),
       moons |-> {40161708, 40161709}, eve_entities |-> {1001},
       eve_universe |-> {40161708, 40161709, SolarSystem, 45506, 46676},
       extractions |-> {EarlierExtraction},
       products |-> ExtractionProduct_get_or_create({}, 1, OresA),
       next_extraction_id |-> 2],
      \* refinery 2 holds the moon that the notifications of refinery 1 name
      [refinery_moon |-> (1 :> None @@ 2 :> Some(40161708)),
       refinery_row |->
           (1 :> RefineryRow("Athanor 1", 35835, RefineryOwner)
              @@ 2 :> RefineryRow("Athanor 2", 35835, RefineryOwner)),
       moons |-> {40161708}, eve_entities |-> {},
       eve_universe |-> {40161708, SolarSystem},
       extractions |-> {}, products |-> {}, next_extraction_id |-> 1] }

Init ==
    /\ \E db \in InitialDatabases :
         /\ refinery_moon = db.refinery_moon
         /\ refinery_row = db.refinery_row
         /\ moons = db.moons
         /\ eve_entities = db.eve_entities
         /\ eve_universe = db.eve_universe
         /\ extractions = db.extractions
         /\ products = db.products
         /\ next_extraction_id = db.next_extraction_id
    /\ pc = "idle"
    /\ notifications \in Batches
    /\ queue = << >>
    /\ last_extraction_started = << >>
    /\ raised = ""
    /\ runs = 0
    /\ applied = << >>
    /\ at_start = Database
    /\ before = Database
    /\ workers = << >>
    /\ valuation = NoValuation
    /\ moon_valuation = NoMoonValuation
    /\ refinery_update = NoRefineryUpdate
    /\ update_cycle = NoUpdateCycle

\* what a step leaves of the database
Stored(db) ==
    /\ refinery_moon' = db.refinery_moon
    /\ refinery_row' = db.refinery_row
    /\ moons' = db.moons
    /\ eve_entities' = db.eve_entities
    /\ eve_universe' = db.eve_universe
    /\ extractions' = db.extractions
    /\ products' = db.products
    /\ next_extraction_id' = db.next_extraction_id

\* update_extractions_from_esi up to the for loop (lines 429-441).  Every
\* run receives the same list, as ESI keeps returning the notifications of
\* the character.
Fetch ==
    /\ pc # "running"
    /\ refinery_update.pc # "updating"
    /\ runs < MaxRuns
    /\ queue' = SortedByTimestamp(notifications)
    /\ pc' = IF notifications = << >> THEN "done" ELSE "running"
    /\ last_extraction_started' = << >>
    /\ raised' = ""
    /\ runs' = runs + 1
    /\ applied' = << >>
    /\ at_start' = [Database EXCEPT !.last_extraction_started = << >>]
    /\ before' = [Database EXCEPT !.last_extraction_started = << >>]
    /\ Stored(Database)
    /\ UNCHANGED << notifications, workers, valuation,
                    moon_valuation, refinery_update, update_cycle >>

\* one iteration of the for loop; the method returns after the last one
\* and ends at once when the iteration raises
ProcessNotification ==
    /\ pc = "running"
    /\ queue # << >>
    /\ \E answer \in AnswersTo(Database, Head(queue)) :
         LET db == process_notification(Database, Head(queue), answer)
         IN /\ Stored(db)
            /\ last_extraction_started' = db.last_extraction_started
            /\ raised' = db.raised
            /\ pc' = IF db.raised # "" THEN "failed"
                     ELSE IF Tail(queue) = << >> THEN "done" ELSE "running"
    /\ queue' = Tail(queue)
    /\ applied' = Append(applied, Head(queue))
    /\ before' = Database
    /\ UNCHANGED << notifications, runs, at_start, workers, valuation,
                    moon_valuation, refinery_update, update_cycle >>

Next == Fetch \/ ProcessNotification

Spec == Init /\ [][Next]_vars

----------------------------------------------------------------------------
\* Two executions of update_extractions_from_esi for the same owner side by
\* side (two Celery workers, src/moonplanner/tasks.py 34-55: the tasks take
\* no lock and open no transaction).  Every statement an ORM call sends is
\* committed on its own in autocommit mode, so the other execution can act
\* between any two of them: between the SELECT and the INSERT of a
\* get_or_create, between the queries of update_calculated_properties and
\* its save().  Each action below is one statement of one execution, with
\* what the execution does in its own memory up to its next statement.
\* The two executions start from a database in which the rows of EveMoon
\* and EveOreType are stored, so that a lookup of one is a SELECT and no
\* request to ESI.

Workers == {1, 2}

\* the database as one execution sees it, with its own dict
WorkerDatabase(w) ==
    [Database EXCEPT !.last_extraction_started = workers[w].started]

\* the lists the two executions fetch: a well-formed Started notification
\* of structure 1 and a later notification
ConcurrentBatches ==
    { b \in Batches :
        /\ Len(b) = 2
        /\ b[1].type = "MoonminingExtractionStarted"
        /\ b[1].timestamp < b[2].timestamp
        /\ \A i \in 1..2 :
              /\ "structureID" \in DOMAIN b[i].text
              /\ b[i].type = "MoonminingExtractionStarted" =>
                    "readyTime" \in DOMAIN b[i].text }

\* what an execution holds in memory.  pc names the statement it is about
\* to execute; refinery, started_by and extraction are the objects of the
\* iteration (with the columns the execution has read or set), ores the
\* items of oreVolumeByType the product loop has yet to visit, started the
\* dict last_extraction_started
IdleWorker(fetched) ==
    [ pc |-> "refinery", queue |-> SortedByTimestamp(fetched),
      started |-> << >>, refinery |-> None, started_by |-> None,
      extraction |-> None, ores |-> << >>, raised |-> "" ]

\* the moons, the solar system and the ore types of the model
EveUniverse ==
    {40161708, 40161709, 40161710, SolarSystem} \cup ListedOreTypes

\* a database in which the rows of eveuniverse are stored
WithEveUniverse(db) == [db EXCEPT !.eve_universe = EveUniverse]

\* the answers of the outside during a run over n notifications of a
\* database in which the rows of eveuniverse are stored: no request for a
\* moon or an ore type is sent
StoredAnswers(n) ==
    [1..n -> { answer \in Answers :
                 answer.moon_ok /\ answer.ore_types_ok = MaxOres }]

\* both executions have fetched the same list; the database is one on which
\* two runs one after the other raise nothing
InitConcurrent ==
    /\ \E db \in InitialDatabases :
         /\ refinery_moon = db.refinery_moon
         /\ refinery_row = db.refinery_row
         /\ moons = db.moons
         /\ eve_entities = db.eve_entities
         /\ eve_universe = WithEveUniverse(db).eve_universe
         /\ extractions = db.extractions
         /\ products = db.products
         /\ next_extraction_id = db.next_extraction_id
    /\ pc = "idle"
    /\ notifications \in ConcurrentBatches
    /\ queue = << >>
    /\ last_extraction_started = << >>
    /\ raised = ""
    /\ runs = 0
    /\ applied = << >>
    /\ at_start = Database
    /\ before = Database
    /\ \A first, second \in StoredAnswers(Len(notifications)) :
          update_extractions_from_esi(
              update_extractions_from_esi(Database, notifications, first),
              notifications, second).raised = ""
    /\ workers = [w \in Workers |-> IdleWorker(notifications)]
    /\ valuation = NoValuation
    /\ moon_valuation = NoMoonValuation
    /\ refinery_update = NoRefineryUpdate
    /\ update_cycle = NoUpdateCycle

\* the end of an iteration of the for loop: on to the next notification
NextIteration(worker) ==
    [worker EXCEPT !.queue = Tail(@),
                   !.pc = IF Tail(worker.queue) = << >>
                          THEN "done" ELSE "refinery",
                   !.refinery = None, !.started_by = None,
                   !.extraction = None, !.ores = << >>]

\* an exception that nothing catches ends the execution
Failed(worker, exception) ==
    [worker EXCEPT !.pc = "failed", !.raised = exception]

\* the branch on the type of the notification (lines 453-494), from where
\* the moon update has left off to the next statement on the database;
\* what touches only the memory of the execution is done on the way
Branch(worker) ==
    LET n == Head(worker.queue)
        structure_id == n.text.structureID
    IN CASE n.type = "MoonminingExtractionStarted" ->
              IF worker.refinery = None THEN NextIteration(worker)
              ELSE IF "startedBy" \in DOMAIN n.text
                      /\ Truthy(Some(n.text.startedBy))
              THEN [worker EXCEPT !.pc = "entity_select"]
              ELSE [worker EXCEPT !.started_by = None,
                                  !.pc = "extraction_select"]
         [] n.type = "MoonminingExtractionCancelled" ->
              IF structure_id \in DOMAIN worker.started
              THEN [worker EXCEPT !.pc = "delete"]
              ELSE NextIteration(worker)
         [] n.type = "MoonminingExtractionFinished" ->
              NextIteration(
                  [worker EXCEPT !.started =
                      [s \in DOMAIN @ \ {structure_id} |-> @[s]]])
         [] OTHER -> NextIteration(worker)

\* what an execution leaves unchanged of the runs of the other
\* specifications
OtherRunsUnchanged ==
    UNCHANGED << pc, notifications, queue, last_extraction_started, raised,
                 runs, applied, at_start, before, valuation, moon_valuation,
                 refinery_update, update_cycle >>

\* Refinery.objects.get(id=structure_id) (lines 443-450): the SELECT of the
\* refinery and, with it, of its moon; the object keeps what the row held
\* at this moment
WorkerRefinery(w) ==
    /\ workers[w].pc = "refinery"
    /\ LET n == Head(workers[w].queue)
           structure_id == n.text.structureID
           found == structure_id \in DOMAIN refinery_moon
           seen == [workers[w] EXCEPT !.refinery =
                       IF found THEN Some(Refinery_get(Database, structure_id))
                       ELSE None]
       IN workers' = [workers EXCEPT ![w] =
            IF "structureID" \notin DOMAIN n.text
            THEN Failed(workers[w], "KeyError")
            ELSE IF found /\ refinery_moon[structure_id] = None
            THEN IF "moonID" \notin DOMAIN n.text
                 THEN Failed(seen, "KeyError")
                 ELSE [seen EXCEPT !.pc = "eve_moon"]
            ELSE Branch(seen)]
    /\ Stored(Database)
    /\ OtherRunsUnchanged

\* update_moon_from_eve_id, line 581: EveMoon.objects.get_or_create_esi,
\* the SELECT of the stored row; when there is none, the request to ESI
\* that stores the row or raises OSError, which nothing catches
WorkerEveMoon(w) ==
    /\ workers[w].pc = "eve_moon"
    /\ \E esi_ok \in BOOLEAN :
         LET eve_moon == get_or_create_esi(
                             Database, Head(workers[w].queue).text.moonID,
                             esi_ok)
         IN /\ Stored(eve_moon)
            /\ workers' = [workers EXCEPT ![w] =
                  IF eve_moon.raised # "" THEN Failed(@, eve_moon.raised)
                  ELSE [@ EXCEPT !.pc = "moon_select"]]
    /\ OtherRunsUnchanged

\* update_moon_from_eve_id, line 582: the SELECT of
\* Moon.objects.get_or_create
WorkerMoonSelect(w) ==
    /\ workers[w].pc = "moon_select"
    /\ workers' = [workers EXCEPT ![w].pc =
          IF Head(workers[w].queue).text.moonID \in moons
          THEN "refinery_save" ELSE "moon_insert"]
    /\ Stored(Database)
    /\ OtherRunsUnchanged

\* the INSERT of Moon.objects.get_or_create; when the other execution has
\* stored the moon in between, get_or_create catches the IntegrityError
\* and its second SELECT returns that row (no Moon row is ever deleted)
WorkerMoonInsert(w) ==
    /\ workers[w].pc = "moon_insert"
    /\ Stored([Database EXCEPT
                  !.moons = @ \cup {Head(workers[w].queue).text.moonID}])
    /\ workers' = [workers EXCEPT ![w].pc = "refinery_save"]
    /\ OtherRunsUnchanged

\* save() of a Refinery object with a moon, first statement: the UPDATE of
\* every column of the row of its pk with what the object holds.
\* Refinery.moon is a OneToOneField, so the statement fails when another
\* refinery holds the moon.  refused: the exception, "" when the row was
\* updated; missing: no row has that pk, so save() goes on to an INSERT
Refinery_save_update(db, refinery, moon) ==
    IF refinery.id \notin DOMAIN db.refinery_moon
    THEN [db |-> db, refused |-> "", missing |-> TRUE]
    ELSE IF \E r \in DOMAIN db.refinery_moon :
               r # refinery.id /\ db.refinery_moon[r] = moon
    THEN [db |-> db, refused |-> "IntegrityError", missing |-> FALSE]
    ELSE [db |-> [db EXCEPT
                    !.refinery_moon[refinery.id] = moon,
                    !.refinery_row[refinery.id] =
                        RefineryRow(refinery.name, refinery.eve_type,
                                    refinery.owner)],
          refused |-> "", missing |-> FALSE]

\* save() of a Refinery object with a moon, second statement: the INSERT
\* of the row when the UPDATE has found none.  The primary key refuses it
\* when a row of the pk has been stored in between, the unique key of the
\* moon when another refinery holds the moon.
Refinery_save_insert(db, refinery, moon) ==
    IF \/ refinery.id \in DOMAIN db.refinery_moon
       \/ \E r \in DOMAIN db.refinery_moon : db.refinery_moon[r] = moon
    THEN [db |-> db, refused |-> "IntegrityError"]
    ELSE [db |-> [db EXCEPT
                    !.refinery_moon = (refinery.id :> moon) @@ @,
                    !.refinery_row =
                        (refinery.id :>
                            RefineryRow(refinery.name, refinery.eve_type,
                                        refinery.owner)) @@ @],
          refused |-> ""]

\* update_moon_from_eve_id, lines 583-584: save() of the refinery, its
\* UPDATE
WorkerRefinerySave(w) ==
    /\ workers[w].pc = "refinery_save"
    /\ LET saved == Refinery_save_update(
                        Database, TheValue(workers[w].refinery),
                        Some(Head(workers[w].queue).text.moonID))
       IN /\ Stored(saved.db)
          /\ workers' = [workers EXCEPT ![w] =
                IF saved.missing THEN [@ EXCEPT !.pc = "refinery_insert"]
                ELSE IF saved.refused # "" THEN Failed(@, saved.refused)
                ELSE Branch(@)]
    /\ OtherRunsUnchanged

\* update_moon_from_eve_id, line 584: the INSERT of save(), when another
\* execution has deleted the row of the refinery
WorkerRefineryInsert(w) ==
    /\ workers[w].pc = "refinery_insert"
    /\ LET saved == Refinery_save_insert(
                        Database, TheValue(workers[w].refinery),
                        Some(Head(workers[w].queue).text.moonID))
       IN /\ Stored(saved.db)
          /\ workers' = [workers EXCEPT ![w] =
                IF saved.refused # "" THEN Failed(@, saved.refused)
                ELSE Branch(@)]
    /\ OtherRunsUnchanged

\* EveEntity.objects.get_or_create_esi (lines 458-461): the SELECT of the
\* stored row
WorkerEntitySelect(w) ==
    /\ workers[w].pc = "entity_select"
    /\ LET id == Head(workers[w].queue).text.startedBy
       IN workers' = [workers EXCEPT ![w] =
            IF id \in eve_entities
            THEN [@ EXCEPT !.started_by = Some(id),
                           !.pc = "extraction_select"]
            ELSE [@ EXCEPT !.pc = "entity_create"]]
    /\ Stored(Database)
    /\ OtherRunsUnchanged

\* the row was not stored, so get_or_create_esi asks ESI: the request
\* returns and the row is stored (update_or_create, that takes the row of
\* the other execution when that has stored it in between), or the request
\* raises OSError and started_by is None (lines 462-463), whether or not
\* the other execution has stored the row by now
WorkerEntityCreate(w) ==
    /\ workers[w].pc = "entity_create"
    /\ \E esi_ok \in BOOLEAN :
         LET id == Head(workers[w].queue).text.startedBy
         IN /\ Stored([Database EXCEPT !.eve_entities =
                          IF esi_ok THEN @ \cup {id} ELSE @])
            /\ workers' = [workers EXCEPT ![w] =
                  [@ EXCEPT !.started_by = IF esi_ok THEN Some(id) ELSE None,
                            !.pc = "extraction_select"]]
    /\ OtherRunsUnchanged

\* lines 474-475 after get_or_create has returned the extraction: the dict
\* entry and the items of oreVolumeByType
WithExtraction(worker, extraction) ==
    LET n == Head(worker.queue)
        remembered == [worker EXCEPT
                          !.started = (n.text.structureID
                                          :> Some(extraction.id)) @@ @,
                          !.extraction = Some(extraction)]
    IN IF "oreVolumeByType" \notin DOMAIN n.text
       THEN Failed(remembered, "KeyError")
       ELSE [remembered EXCEPT
                !.ores = n.text.oreVolumeByType,
                !.pc = IF n.text.oreVolumeByType = << >>
                       THEN "calc_value" ELSE "ore_type"]

\* the rows of the key (refinery, ready_time) of the notification of an
\* execution
ExtractionsOfKey(rows, n) ==
    { e \in rows : /\ e.refinery = n.text.structureID
                   /\ e.ready_time = ldap_time_2_datetime(n.text.readyTime) }

\* Extraction.objects.get_or_create (lines 466-473): its arguments and the
\* SELECT by (refinery, ready_time)
WorkerExtractionSelect(w) ==
    /\ workers[w].pc = "extraction_select"
    /\ LET n == Head(workers[w].queue)
       IN workers' = [workers EXCEPT ![w] =
            IF "readyTime" \notin DOMAIN n.text
               \/ "autoTime" \notin DOMAIN n.text
            THEN Failed(@, "KeyError")
            ELSE IF ExtractionsOfKey(extractions, n) # {}
            THEN WithExtraction(@, CHOOSE e \in ExtractionsOfKey(
                                                    extractions, n) : TRUE)
            ELSE [@ EXCEPT !.pc = "extraction_insert"]]
    /\ Stored(Database)
    /\ OtherRunsUnchanged

\* the INSERT of Extraction.objects.get_or_create.  The unique key refuses
\* it when another execution has stored a row of the key in between, the
\* foreign key when the row of the refinery is gone; get_or_create catches
\* the IntegrityError and goes on to a second SELECT.
WorkerExtractionInsert(w) ==
    /\ workers[w].pc = "extraction_insert"
    /\ LET n == Head(workers[w].queue)
           got == Extraction_get_or_create(
                      WorkerDatabase(w), n.text.structureID,
                      ldap_time_2_datetime(n.text.readyTime),
                      ldap_time_2_datetime(n.text.autoTime),
                      workers[w].started_by)
       IN IF \/ ExtractionsOfKey(extractions, n) # {}
             \/ n.text.structureID \notin DOMAIN refinery_moon
          THEN /\ workers' = [workers EXCEPT ![w].pc =
                                 "extraction_select_again"]
               /\ Stored(Database)
          ELSE /\ Stored(got.db)
               /\ workers' = [workers EXCEPT ![w] =
                     WithExtraction(@, CHOOSE e \in got.db.extractions :
                                           e.id = got.pk)]
    /\ OtherRunsUnchanged

\* the second SELECT of Extraction.objects.get_or_create, after the INSERT
\* was refused: the row of the key if there is one now, else get_or_create
\* raises the IntegrityError of the INSERT
WorkerExtractionSelectAgain(w) ==
    /\ workers[w].pc = "extraction_select_again"
    /\ LET n == Head(workers[w].queue)
       IN workers' = [workers EXCEPT ![w] =
            IF ExtractionsOfKey(extractions, n) # {}
            THEN WithExtraction(@, CHOOSE e \in ExtractionsOfKey(
                                                    extractions, n) : TRUE)
            ELSE Failed(@, "IntegrityError")]
    /\ Stored(Database)
    /\ OtherRunsUnchanged

\* the product loop has dealt with the item at the head of ores
NextOre(worker) ==
    [worker EXCEPT !.ores = Tail(@),
                   !.pc = IF Tail(worker.ores) = << >>
                          THEN "calc_value" ELSE "ore_type"]

\* one turn of the product loop (lines 476-482), the ores in the order of
\* the text; line 477: EveOreType.objects.get_or_create_esi, the SELECT of
\* the stored row; when there is none, the request to ESI that stores the
\* row or raises OSError, which nothing catches
WorkerEveOreType(w) ==
    /\ workers[w].pc = "ore_type"
    /\ \E esi_ok \in BOOLEAN :
         LET ore_type == get_or_create_esi(
                             Database, Head(workers[w].ores)[1], esi_ok)
         IN /\ Stored(ore_type)
            /\ workers' = [workers EXCEPT ![w] =
                  IF ore_type.raised # "" THEN Failed(@, ore_type.raised)
                  ELSE [@ EXCEPT !.pc = "product_select"]]
    /\ OtherRunsUnchanged

\* the product row of the extraction of an execution for the ore type at
\* the head of ores is stored
ProductStored(rows, worker) ==
    \E p \in rows : /\ p.extraction = TheValue(worker.extraction).id
                    /\ p.ore_type = Head(worker.ores)[1]

\* lines 478-482: the SELECT of ExtractionProduct.objects.get_or_create
WorkerProductSelect(w) ==
    /\ workers[w].pc = "product_select"
    /\ workers' = [workers EXCEPT ![w] =
          IF ProductStored(products, @) THEN NextOre(@)
          ELSE [@ EXCEPT !.pc = "product_insert"]]
    /\ Stored(Database)
    /\ OtherRunsUnchanged

\* the INSERT of ExtractionProduct.objects.get_or_create.  The unique key
\* refuses it when another execution has stored the product in between,
\* the foreign key when the row of the extraction is gone; get_or_create
\* catches the IntegrityError and goes on to a second SELECT.
WorkerProductInsert(w) ==
    /\ workers[w].pc = "product_insert"
    /\ LET extraction == TheValue(workers[w].extraction)
       IN IF \/ ProductStored(products, workers[w])
             \/ ~ \E e \in extractions : e.id = extraction.id
          THEN /\ workers' = [workers EXCEPT ![w].pc = "product_select_again"]
               /\ Stored(Database)
          ELSE /\ workers' = [workers EXCEPT ![w] = NextOre(@)]
               /\ Stored([Database EXCEPT !.products = @ \cup
                      { [extraction |-> extraction.id,
                         ore_type |-> Head(workers[w].ores)[1],
                         volume |-> Head(workers[w].ores)[2]] }])
    /\ OtherRunsUnchanged

\* the second SELECT of ExtractionProduct.objects.get_or_create, after the
\* INSERT was refused: the row if there is one now, else get_or_create
\* raises the IntegrityError of the INSERT
WorkerProductSelectAgain(w) ==
    /\ workers[w].pc = "product_select_again"
    /\ workers' = [workers EXCEPT ![w] =
          IF ProductStored(products, @) THEN NextOre(@)
          ELSE Failed(@, "IntegrityError")]
    /\ Stored(Database)
    /\ OtherRunsUnchanged

\* update_calculated_properties, line 648: self.value = self.calc_value(),
\* from the products stored at this moment
WorkerCalcValue(w) ==
    /\ workers[w].pc = "calc_value"
    /\ \E row_order \in QueryOrders :
         LET extraction == TheValue(workers[w].extraction)
         IN workers' = [workers EXCEPT ![w] =
              [@ EXCEPT !.extraction =
                            Some([extraction EXCEPT !.value =
                                Some(Extraction_calc_value(
                                         products, extraction.id,
                                         row_order))]),
                        !.pc = "calc_is_jackpot"]]
    /\ Stored(Database)
    /\ OtherRunsUnchanged

\* update_calculated_properties, line 649: self.is_jackpot =
\* self.calc_is_jackpot(), from the products stored at this moment
WorkerCalcIsJackpot(w) ==
    /\ workers[w].pc = "calc_is_jackpot"
    /\ LET extraction == TheValue(workers[w].extraction)
       IN workers' = [workers EXCEPT ![w] =
            [@ EXCEPT !.extraction =
                          Some([extraction EXCEPT !.is_jackpot =
                              Some(Extraction_calc_is_jackpot(
                                       products, extraction.id))]),
                      !.pc = "save"]]
    /\ Stored(Database)
    /\ OtherRunsUnchanged

\* update_calculated_properties, line 650: save() of the object in memory,
\* an UPDATE of the row of its pk and, when no row has that pk, an INSERT,
\* which the unique key (refinery, ready_time) and the foreign key of the
\* refinery can refuse.  A primary key of the table is given once, so a
\* row that the UPDATE has not found is not there at the INSERT either,
\* and the two statements are one step.
WorkerSave(w) ==
    /\ workers[w].pc = "save"
    /\ LET extraction == TheValue(workers[w].extraction)
       IN IF /\ ~ \E own \in extractions : own.id = extraction.id
             /\ \/ \E e \in extractions :
                      /\ e.refinery = extraction.refinery
                      /\ e.ready_time = extraction.ready_time
                \/ extraction.refinery \notin DOMAIN refinery_moon
          THEN /\ workers' = [workers EXCEPT ![w] =
                                 Failed(@, "IntegrityError")]
               /\ Stored(Database)
          ELSE /\ workers' = [workers EXCEPT ![w] = NextIteration(@)]
               /\ Stored([Database EXCEPT !.extractions =
                      { e \in @ : e.id # extraction.id } \cup {extraction}])
    /\ OtherRunsUnchanged

\* the Cancelled branch (lines 487-490): extraction.delete() on the object
\* of the dict, the DELETE of the products and of the row in one
\* transaction
WorkerDelete(w) ==
    /\ workers[w].pc = "delete"
    /\ LET db == Extraction_delete(WorkerDatabase(w),
                                   Head(workers[w].queue).text.structureID)
       IN /\ Stored(db)
          /\ workers' = [workers EXCEPT ![w] =
                IF db.raised # "" THEN Failed(@, db.raised)
                ELSE NextIteration(
                         [@ EXCEPT !.started = db.last_extraction_started])]
    /\ OtherRunsUnchanged

\* no refinery is deleted while the two executions run, so the UPDATE of
\* save() finds the row of the refinery and WorkerRefineryInsert has no
\* part in them
NextConcurrent ==
    \E w \in Workers :
        \/ WorkerRefinery(w)
        \/ WorkerEveMoon(w)
        \/ WorkerMoonSelect(w)
        \/ WorkerMoonInsert(w)
        \/ WorkerRefinerySave(w)
        \/ WorkerEntitySelect(w)
        \/ WorkerEntityCreate(w)
        \/ WorkerExtractionSelect(w)
        \/ WorkerExtractionInsert(w)
        \/ WorkerExtractionSelectAgain(w)
        \/ WorkerEveOreType(w)
        \/ WorkerProductSelect(w)
        \/ WorkerProductInsert(w)
        \/ WorkerProductSelectAgain(w)
        \/ WorkerCalcValue(w)
        \/ WorkerCalcIsJackpot(w)
        \/ WorkerSave(w)
        \/ WorkerDelete(w)

SpecConcurrent == InitConcurrent /\ [][NextConcurrent]_vars

----------------------------------------------------------------------------
\* Extraction.update_calculated_properties on one extraction, as a function
\* of the products that self.products returns, in the order the query
\* returns them.

\* most products of the extraction
MaxProducts == 3

\* calls of update_calculated_properties for one row
MaxCalls == 2

\* the product lists of an extraction: one product per ore type (unique
\* constraint functional_pk_extractionproduct), in any order
ProductLists ==
    { list \in UNION { [1..n -> [ore_type : DOMAIN EveTypeVolume,
                                 volume : Volumes]] : n \in 0..MaxProducts } :
        \A i, j \in DOMAIN list :
            list[i].ore_type = list[j].ore_type => i = j }

\* a Python any() in the place of all()
RECURSIVE any_of(_)
any_of(flags) ==
    IF flags = << >> THEN FALSE ELSE Head(flags) \/ any_of(Tail(flags))

\* Python's all() over a list
RECURSIVE all_of(_)
all_of(flags) ==
    IF flags = << >> THEN TRUE ELSE Head(flags) /\ all_of(Tail(flags))

\* Extraction.calc_is_jackpot over the list the query returns
calc_is_jackpot(product_list) ==
    Some(all_of([i \in DOMAIN product_list |->
                    OreQualityClass_from_eve_type(product_list[i].ore_type)
                        = "EXCELLENT"]))

\* Extraction.calc_value over the list the query returns
calc_value(product_list) ==
    Some(sum_of([i \in DOMAIN product_list |->
                    refined_value(product_list[i].ore_type,
                                  Number(product_list[i].volume),
                                  None)]))

\* Moon.update_calculated_properties on one moon, as a function of the
\* MoonProduct rows that self.products returns

\* the product lists of a moon: one product per ore type (unique constraint
\* functional_pk_moonproduct), in any order
MoonProductLists ==
    { list \in UNION { [1..n -> [ore_type : DOMAIN EveTypeVolume,
                                 amount : Amounts]] : n \in 0..MaxProducts } :
        \A i, j \in DOMAIN list :
            list[i].ore_type = list[j].ore_type => i = j }

\* OreRarityClass.from_eve_group_id; the classes are their integer values
OreRarityClass_from_eve_group_id(eve_group_id) ==
    CASE eve_group_id = 1884 -> 4
      [] eve_group_id = 1920 -> 8
      [] eve_group_id = 1921 -> 16
      [] eve_group_id = 1922 -> 32
      [] eve_group_id = 1923 -> 64
      [] OTHER -> 0

\* mutation: min() in place of max()
min_of(numbers) ==
    IF numbers = << >> THEN [raised |-> "ValueError", result |-> None]
    ELSE [raised |-> "",
          result |-> Some(CHOOSE m \in { numbers[i] : i \in DOMAIN numbers } :
                            \A i \in DOMAIN numbers : m <= numbers[i])]

\* Python's max() over a list: the greatest entry, ValueError when the
\* list is empty
max_of(numbers) ==
    IF numbers = << >> THEN [raised |-> "ValueError", result |-> None]
    ELSE [raised |-> "",
          result |-> Some(CHOOSE m \in { numbers[i] : i \in DOMAIN numbers } :
                            \A i \in DOMAIN numbers : numbers[i] <= m)]

\* Moon.calc_rarity_class over the list the query returns; the except
\* clause catches ObjectDoesNotExist only
Moon_calc_rarity_class(product_list) ==
    max_of([i \in DOMAIN product_list |->
               OreRarityClass_from_eve_group_id(
                   EveTypeGroup[product_list[i].ore_type])])

\* MoonProduct.calc_value
MoonProduct_calc_value(product, total_volume, reprocessing_yield) ==
    refined_value(
        product.ore_type,
        Times(Number(IF ~Truthy(total_volume) THEN VolumePerMonth
                     ELSE TheValue(total_volume)),
              Frac(product.amount, 100)),
        reprocessing_yield)

\* what MoonProduct.calc_value returns for every product of the bounds,
\* as Moon.calc_value calls it, calculated once (@@ makes the function a
\* table of its values)
MoonProductValues ==
    [product \in [ore_type : DOMAIN EveTypeVolume, amount : Amounts] |->
        MoonProduct_calc_value(product, Some(VolumePerMonth), None)] @@ << >>

\* Moon.calc_value over the list the query returns; the results of
\* product.calc_value(total_volume, reprocessing_yield) are read from
\* MoonProductValues
Moon_calc_value(product_list) ==
    Some(sum_of([i \in DOMAIN product_list |->
                    MoonProductValues[product_list[i]]]))

InitValuation ==
    /\ \E db \in InitialDatabases :
         /\ refinery_moon = db.refinery_moon
         /\ refinery_row = db.refinery_row
         /\ moons = db.moons
         /\ eve_entities = db.eve_entities
         /\ eve_universe = db.eve_universe
         /\ extractions = db.extractions
         /\ products = db.products
         /\ next_extraction_id = db.next_extraction_id
         /\ db.extractions = {}
         /\ db.moons = {}
    /\ pc = "idle"
    /\ notifications = << >>
    /\ queue = << >>
    /\ last_extraction_started = << >>
    /\ raised = ""
    /\ runs = 0
    /\ applied = << >>
    /\ at_start = Database
    /\ before = Database
    /\ workers = << >>
    /\ refinery_update = NoRefineryUpdate
    /\ update_cycle = NoUpdateCycle
    /\ \/ /\ moon_valuation = NoMoonValuation
          /\ \E product_list \in ProductLists :
                valuation = [NoValuation EXCEPT !.products = product_list]
       \/ /\ valuation = NoValuation
          /\ \E product_list \in MoonProductLists :
                moon_valuation =
                    [NoMoonValuation EXCEPT !.moon = Some(40161708),
                                            !.products = product_list]

\* the orders in which a query that states no order may return the rows
\* of a list
Reorderings(list) ==
    { [i \in DOMAIN list |-> list[f[i]]] :
        f \in { g \in [DOMAIN list -> DOMAIN list] :
                  \A i, j \in DOMAIN list : g[i] = g[j] => i = j } }

\* Extraction.update_calculated_properties (lines 646-650); the tasks call
\* it again for the same row in every update.  calc_value and
\* calc_is_jackpot each send their own query for the products, and the
\* database returns the rows in an order of its choice, query by query;
\* valuation.products keeps the rows in the order in which calc_value
\* received them.
UpdateCalculatedProperties ==
    /\ moon_valuation.moon = None
    /\ valuation.calls < MaxCalls
    /\ \E returned \in Reorderings(valuation.products) :
         LET value == calc_value(returned)
         IN \E returned_again \in Reorderings(valuation.products) :
              valuation' = [valuation EXCEPT
                               !.products = returned,
                               !.value = value,
                               !.is_jackpot = calc_is_jackpot(returned_again),
                               !.done = TRUE,
                               !.calls = @ + 1]
    /\ UNCHANGED << refinery_moon, refinery_row, moons, eve_entities,
                    eve_universe, extractions, products,
                    next_extraction_id, pc, notifications, queue,
                    last_extraction_started, raised, runs, applied, at_start,
                    before, workers, moon_valuation, refinery_update,
                    update_cycle >>

\* Moon.update_calculated_properties (lines 269-273): an exception leaves
\* the method before self.save().  calc_value and calc_rarity_class each
\* send their own query for the products; moon_valuation.products keeps
\* the rows in the order in which calc_value received them.
MoonUpdateCalculatedProperties ==
    /\ moon_valuation.moon # None
    /\ moon_valuation.calls < MaxCalls
    /\ \E returned \in Reorderings(moon_valuation.products) :
         LET value == Moon_calc_value(returned)
         IN \E returned_again \in Reorderings(moon_valuation.products) :
         LET rarity_class == Moon_calc_rarity_class(returned_again)
         IN moon_valuation' =
              IF TheValue(value) = ZeroDivisionError
              THEN [moon_valuation EXCEPT !.products = returned,
                                          !.raised = "ZeroDivisionError",
                                          !.done = TRUE, !.calls = @ + 1]
              ELSE IF rarity_class.raised # ""
              THEN [moon_valuation EXCEPT !.products = returned,
                                          !.raised = rarity_class.raised,
                                          !.done = TRUE, !.calls = @ + 1]
              ELSE [moon_valuation EXCEPT
                       !.products = returned,
                       !.value = value,
                       !.rarity_class = TheValue(rarity_class.result),
                       !.raised = "",
                       !.done = TRUE, !.calls = @ + 1]
    /\ UNCHANGED << refinery_moon, refinery_row, moons, eve_entities,
                    eve_universe, extractions, products,
                    next_extraction_id, pc, notifications, queue,
                    last_extraction_started, raised, runs, applied, at_start,
                    before, workers, valuation, refinery_update, update_cycle >>

NextValuation == UpdateCalculatedProperties \/ MoonUpdateCalculatedProperties

SpecValuation == InitValuation /\ [][NextValuation]_vars

----------------------------------------------------------------------------
\* Owner.update_refineries_from_esi (lines 378-425) and the runs of
\* update_extractions_from_esi that follow it for the same owner
\* (src/moonplanner/tasks.py 34-41 chains the two).  One run is a start
\* action (the structure list), one action per iteration of the for loop
\* and one for the removal at the end.

\* runs of update_refineries_from_esi in one behaviour
MaxRefineryRuns == 2

EVE_GROUP_ID_REFINERY == 1406
EVE_TYPE_ID_MOON == 14

\* EveType.eve_group_id of the structure types
StructureTypeGroup == (35835 :> EVE_GROUP_ID_REFINERY @@ 35832 :> 1657)

\* what get_corporations_corporation_id_structures may return: some of the
\* structures, in any order
StructureLists ==
    { list \in UNION { [1..n -> [structure_id : ListedStructures,
                                 type_id : {35835, 35832}]] :
                       n \in 0..Cardinality(ListedStructures) } :
        /\ \A i \in DOMAIN list :
              list[i].type_id = StructureTypes[list[i].structure_id]
        /\ \A i, j \in DOMAIN list :
              list[i].structure_id = list[j].structure_id => i = j }

\* what solar_system.nearest_celestial may do: raise OSError, return
\* nothing, a planet or a moon
NearestCelestials ==
    { [raised |-> "OSError", celestial |-> None],
      [raised |-> "", celestial |-> None],
      [raised |-> "", celestial |-> Some([eve_type |-> 11, id |-> 40161705])],
      [raised |-> "",
       celestial |-> Some([eve_type |-> EVE_TYPE_ID_MOON, id |-> 40161708])],
      [raised |-> "",
       celestial |-> Some([eve_type |-> EVE_TYPE_ID_MOON, id |-> 40161709])] }

\* the notification lists of the character in these behaviours: nothing,
\* or one MoonminingExtractionStarted of structure 1 or of structure 2
RefineryBatches ==
    { << >> } \cup
    { << n >> : n \in { m \in Notifications :
                          /\ m.type = "MoonminingExtractionStarted"
                          /\ m.timestamp = 1
                          /\ "readyTime" \in DOMAIN m.text
                          /\ m.text.readyTime = 1000 } }

\* _fetch_refineries_from_esi: the ids of the listed structures whose type
\* is of the refinery group, in the order listed (a dict keeps insertion
\* order)
RECURSIVE fetch_refineries_from_esi(_)
fetch_refineries_from_esi(structures) ==
    IF structures = << >> THEN << >>
    ELSE IF StructureTypeGroup[Head(structures).type_id]
              = EVE_GROUP_ID_REFINERY
         THEN << Head(structures).structure_id >>
                 \o fetch_refineries_from_esi(Tail(structures))
         ELSE fetch_refineries_from_esi(Tail(structures))

\* Refinery.objects.update_or_create(id=structure_id, defaults={name,
\* eve_type, owner}) (lines 416-423): a new row has no moon; a stored row
\* keeps its moon, which is not among the defaults, and takes the name,
\* the type and the owner of the call
Refinery_update_or_create(db, structure_id, name, eve_type, owner) ==
    [db EXCEPT
       !.refinery_moon = IF structure_id \in DOMAIN @ THEN @
                         ELSE (structure_id :> None) @@ @,
       !.refinery_row =
           (structure_id :> RefineryRow(name, eve_type, owner)) @@ @]

\* a lookup whose OSError is not caught
Refinery_update_moon_OSError_uncaught(db, structure_id, system_ok, nearest) ==
    LET solar_system == get_or_create_esi(db, SolarSystem, system_ok)
    IN IF solar_system.raised # "" THEN solar_system
       ELSE IF nearest.raised # "" THEN Raise(solar_system, nearest.raised)
       ELSE IF /\ nearest.celestial # None
               /\ TheValue(nearest.celestial).eve_type = EVE_TYPE_ID_MOON
            THEN LET eve_moon == TheValue(nearest.celestial).id
                     with_moon == [solar_system EXCEPT
                                      !.eve_universe = @ \cup {eve_moon},
                                      !.moons = @ \cup {eve_moon}]
                 IN IF \E r \in DOMAIN db.refinery_moon :
                           /\ r # structure_id
                           /\ db.refinery_moon[r] = Some(eve_moon)
                    THEN Raise(with_moon, "IntegrityError")
                    ELSE [with_moon EXCEPT
                             !.refinery_moon[structure_id] = Some(eve_moon)]
            ELSE solar_system

\* a moon column without the unique constraint of a OneToOneField
Refinery_update_moon_not_unique(db, structure_id, system_ok, nearest) ==
    LET solar_system == get_or_create_esi(db, SolarSystem, system_ok)
    IN IF solar_system.raised # "" \/ nearest.raised # "" THEN solar_system
       ELSE IF /\ nearest.celestial # None
               /\ TheValue(nearest.celestial).eve_type = EVE_TYPE_ID_MOON
            THEN [solar_system EXCEPT
                    !.eve_universe = @ \cup {TheValue(nearest.celestial).id},
                    !.moons = @ \cup {TheValue(nearest.celestial).id},
                    !.refinery_moon[structure_id] =
                        Some(TheValue(nearest.celestial).id)]
            ELSE solar_system

\* Refinery.update_moon_from_structure_info (lines 553-578).  Nothing
\* catches the OSError of the request for the solar system (line 557,
\* system_ok); the OSError of nearest_celestial is caught.
\* nearest_celestial stores the EveMoon it returns.  save() fails when
\* another refinery holds the moon (OneToOneField).
Refinery_update_moon_from_structure_info(db, structure_id, system_ok, nearest) ==
    LET solar_system == get_or_create_esi(db, SolarSystem, system_ok)
    IN IF solar_system.raised # "" \/ nearest.raised # "" THEN solar_system
       ELSE IF /\ nearest.celestial # None
               /\ TheValue(nearest.celestial).eve_type = EVE_TYPE_ID_MOON
            THEN LET eve_moon == TheValue(nearest.celestial).id
                     with_moon == [solar_system EXCEPT
                                      !.eve_universe = @ \cup {eve_moon},
                                      !.moons = @ \cup {eve_moon}]
                 IN IF \E r \in DOMAIN db.refinery_moon :
                           /\ r # structure_id
                           /\ db.refinery_moon[r] = Some(eve_moon)
                    THEN Raise(with_moon, "IntegrityError")
                    ELSE [with_moon EXCEPT
                             !.refinery_moon[structure_id] = Some(eve_moon)]
            ELSE solar_system

\* a refinery whose moon is looked up whether or not it already has one
update_or_create_refinery_always_resolving(db, owner, structure_id, fetch_ok, system_ok, nearest) ==
    IF ~ fetch_ok THEN [db |-> db, looked_up |-> FALSE]
    ELSE [db |-> Refinery_update_moon_from_structure_info(
                     Refinery_update_or_create(
                         db, structure_id, StructureNames[structure_id],
                         StructureTypes[structure_id], owner),
                     structure_id, system_ok, nearest),
          looked_up |-> system_ok \/ SolarSystem \in db.eve_universe]

\* an OSError of the details request that is not caught
update_or_create_refinery_fetch_uncaught(db, owner, structure_id, fetch_ok, system_ok, nearest) ==
    IF ~ fetch_ok THEN [db |-> Raise(db, "OSError"), looked_up |-> FALSE]
    ELSE LET stored == Refinery_update_or_create(
                           db, structure_id, StructureNames[structure_id],
                           StructureTypes[structure_id], owner)
         IN IF stored.refinery_moon[structure_id] = None
            THEN [db |-> Refinery_update_moon_from_structure_info(
                             stored, structure_id, system_ok, nearest),
                  looked_up |-> system_ok \/ SolarSystem \in db.eve_universe]
            ELSE [db |-> stored, looked_up |-> FALSE]

\* Owner._update_or_create_refinery_from_esi (lines 407-425) of the Owner
\* row owner; fetch_ok: get_universe_structures_structure_id answered, else
\* it raised OSError.  looked_up: nearest_celestial was called
update_or_create_refinery_from_esi(db, owner, structure_id, fetch_ok, system_ok, nearest) ==
    IF ~ fetch_ok THEN [db |-> db, looked_up |-> FALSE]
    ELSE LET stored == Refinery_update_or_create(
                           db, structure_id, StructureNames[structure_id],
                           StructureTypes[structure_id], owner)
         IN IF stored.refinery_moon[structure_id] = None
            THEN [db |-> Refinery_update_moon_from_structure_info(
                             stored, structure_id, system_ok, nearest),
                  looked_up |-> system_ok \/ SolarSystem \in db.eve_universe]
            ELSE [db |-> stored, looked_up |-> FALSE]

\* self.refineries: the stored refineries of an Owner row
Owner_refineries(db, owner) ==
    { r \in DOMAIN db.refinery_row : db.refinery_row[r].owner = owner }

\* nothing was collected for deletion
NoneCollected == [refineries |-> {}, extractions |-> {}]

\* the queries of the deletion (line 386): the SELECT of the refineries of
\* the owner that the dict does not list and, when there are any, the
\* SELECT of their extractions
Collector_collect(db, owner, refineries) ==
    LET unlisted == { r \in Owner_refineries(db, owner) :
                        \A i \in DOMAIN refineries : refineries[i] # r }
    IN [refineries |-> unlisted,
        extractions |-> { e.id : e \in { x \in db.extractions :
                                           x.refinery \in unlisted } }]

\* the transaction of the deletion: the DELETE of the products of the
\* collected extractions, of the collected extractions and of the
\* collected refineries, by primary key.  An extraction that was not
\* collected and refers to a collected refinery violates the foreign key:
\* the transaction is rolled back with IntegrityError.
Collector_delete(db, collected) ==
    IF \E e \in db.extractions : /\ e.id \notin collected.extractions
                                 /\ e.refinery \in collected.refineries
    THEN Raise(db, "IntegrityError")
    ELSE LET kept == DOMAIN db.refinery_moon \ collected.refineries
         IN [db EXCEPT
               !.products = { p \in @ :
                                p.extraction \notin collected.extractions },
               !.extractions = { e \in @ :
                                   e.id \notin collected.extractions },
               !.refinery_moon = [r \in kept |-> @[r]],
               !.refinery_row = [r \in kept |-> @[r]]]

\* a removal that keeps every stored refinery
refineries_keep_all(db, owner, refineries) == db

\* a removal that leaves the extractions of a deleted refinery in place
refineries_delete_without_cascade(db, owner, refineries) ==
    LET kept == DOMAIN db.refinery_moon
                    \ Collector_collect(db, owner, refineries).refineries
    IN [db EXCEPT !.refinery_moon = [r \in kept |-> @[r]],
                  !.refinery_row = [r \in kept |-> @[r]]]

\* self.refineries.exclude(id__in=refineries).delete() (line 386): the
\* Extraction rows of a deleted refinery and their products go with it
\* (CASCADE)
refineries_exclude_delete(db, owner, refineries) ==
    Collector_delete(db, Collector_collect(db, owner, refineries))

\* the refineries whose nearest celestial lookup raised OSError in a run
LookupFailed(visited) ==
    { visited[i].structure_id : i \in { j \in DOMAIN visited :
          visited[j].looked_up /\ visited[j].nearest.raised = "OSError" } }

InitRefineries ==
    /\ \E db \in InitialDatabases :
         /\ refinery_moon = db.refinery_moon
         /\ refinery_row = db.refinery_row
         /\ moons = db.moons
         /\ eve_entities = db.eve_entities
         /\ eve_universe = db.eve_universe
         /\ extractions = db.extractions
         /\ products = db.products
         /\ next_extraction_id = db.next_extraction_id
    /\ pc = "idle"
    /\ notifications \in RefineryBatches
    /\ queue = << >>
    /\ last_extraction_started = << >>
    /\ raised = ""
    /\ runs = 0
    /\ applied = << >>
    /\ at_start = Database
    /\ before = Database
    /\ workers = << >>
    /\ valuation = NoValuation
    /\ moon_valuation = NoMoonValuation
    /\ refinery_update = NoRefineryUpdate
    /\ update_cycle =
         [NoUpdateCycle EXCEPT
            !.owners = (RefineryOwner :> [is_enabled |-> TRUE,
                                          last_update_ok |-> None,
                                          last_update_at |-> None]),
            !.now = 1]

\* update_refineries_from_esi up to the for loop (lines 380-382, 391-405).
\* The request for the structure list or the request for the type of a
\* listed structure (line 399) may fail with OSError, which ends the run
\* (list_ok).
FetchRefineries ==
    /\ pc # "running"
    /\ refinery_update.pc # "updating"
    /\ refinery_update.runs < MaxRefineryRuns
    /\ \E list_ok \in BOOLEAN, structures \in StructureLists :
         refinery_update' =
            IF list_ok
            THEN [pc |-> "updating", structures |-> structures,
                  refineries |-> fetch_refineries_from_esi(structures),
                  queue |-> fetch_refineries_from_esi(structures),
                  visited |-> << >>,
                  retry |-> LookupFailed(refinery_update.visited),
                  raised |-> "",
                  runs |-> refinery_update.runs + 1]
            ELSE [pc |-> "failed", structures |-> << >>,
                  refineries |-> << >>, queue |-> << >>,
                  visited |-> << >>,
                  retry |-> LookupFailed(refinery_update.visited),
                  raised |-> "OSError",
                  runs |-> refinery_update.runs + 1]
    /\ at_start' = Database
    /\ before' = Database
    /\ Stored(Database)
    /\ UNCHANGED << pc, notifications, queue,
                    last_extraction_started, raised, runs, applied, workers,
                    valuation, moon_valuation, update_cycle >>

\* what the history of an iteration holds for nearest_celestial when the
\* iteration did not call it
NotCalled == [raised |-> "", celestial |-> None]

\* one iteration of the for loop (line 383); an exception that
\* _update_or_create_refinery_from_esi lets through ends the run
UpdateOrCreateRefinery ==
    /\ refinery_update.pc = "updating"
    /\ refinery_update.queue # << >>
    /\ \E fetch_ok \in BOOLEAN, system_ok \in BOOLEAN,
          nearest \in NearestCelestials :
         LET structure_id == Head(refinery_update.queue)
             done == update_or_create_refinery_from_esi(
                         Database, RefineryOwner, structure_id, fetch_ok,
                         system_ok, nearest)
         IN /\ Stored(done.db)
            /\ refinery_update' =
                 [refinery_update EXCEPT
                    !.queue = Tail(@),
                    !.visited = Append(@, [structure_id |-> structure_id,
                                           fetch_ok |-> fetch_ok,
                                           looked_up |-> done.looked_up,
                                           nearest |->
                                               IF done.looked_up
                                               THEN nearest
                                               ELSE NotCalled]),
                    !.raised = done.db.raised,
                    !.pc = IF done.db.raised # "" THEN "failed"
                           ELSE "updating"]
    /\ before' = Database
    /\ UNCHANGED << pc, notifications, queue, last_extraction_started, raised,
                    runs, applied, at_start, workers, valuation,
                    moon_valuation, update_cycle >>

\* the end of update_refineries_from_esi (lines 385-389): the removal of
\* the refineries that are no longer listed, then self.last_update_at =
\* now() and self.save().  The clock ticks when it has been read.
RemoveRefineries ==
    /\ refinery_update.pc = "updating"
    /\ refinery_update.queue = << >>
    /\ Stored(refineries_exclude_delete(Database, RefineryOwner,
                                        refinery_update.refineries))
    /\ refinery_update' = [refinery_update EXCEPT !.pc = "done"]
    /\ update_cycle' =
         [update_cycle EXCEPT
            !.owners[RefineryOwner].last_update_at = Some(update_cycle.now),
            !.now = @ + 1]
    /\ before' = Database
    /\ UNCHANGED << pc, notifications, queue, last_extraction_started, raised,
                    runs, applied, at_start, workers, valuation,
                    moon_valuation >>

NextRefineries ==
    \/ FetchRefineries
    \/ UpdateOrCreateRefinery
    \/ RemoveRefineries
    \/ Fetch
    \/ ProcessNotification

SpecRefineries == InitRefineries /\ [][NextRefineries]_vars

----------------------------------------------------------------------------
\* The regular updates (src/moonplanner/tasks.py 23-63) and the admin
\* action (src/moonplanner/admin.py 68-72).  run_regular_updates resets the
\* update state of the enabled corporations and queues one
\* update_mining_corporation task per corporation; the admin action queues
\* that task for a corporation an administrator selects, enabled or not.
\* update_mining_corporation queues the chain update_refineries_from_esi,
\* update_extractions_from_esi, mark_successful_update.  Celery runs a task
\* of a chain when the task before it has returned, and drops the rest of
\* the chain when a task raises.  Nothing ties run_regular_updates or the
\* admin action to the chains that were queued before: they run while
\* these are queued or under way.  The worker processes take the queued
\* tasks in any order and run them side by side; a task takes no lock and
\* opens no transaction, so each action of a task is one statement on the
\* database, or one reading of the clock, with what the task does in its
\* own memory and the requests it makes to ESI up to its next statement.
\* The clock now ticks when it has been read.  Statements on rows the
\* model does not keep (Token, EveType) are not steps of their own.

\* calls of run_regular_updates and uses of the admin action in one
\* behaviour, taken together
MaxCycles == 2

\* tasks of the chains that the worker processes run in one behaviour
MaxTasks == 3

\* worker processes: the tasks that run side by side
MaxWorkers == 2

\* the corporations that own refineries (Owner rows)
Corporations == {2001, 2002}

\* what get_corporations_corporation_id_structures may return for a
\* corporation: nothing, or one of the Athanors 1 and 4.  Either is stored
\* under one corporation and may by now be a structure of the other.
CorporationStructureLists ==
    { << >>, << [structure_id |-> 1, type_id |-> 35835] >>,
      << [structure_id |-> 4, type_id |-> 35835] >> }

\* what nearest_celestial may do for a refinery of these corporations:
\* raise OSError, return a planet or the moon 40161708
CorporationCelestials ==
    { nearest \in NearestCelestials :
        \/ nearest.raised # ""
        \/ /\ nearest.celestial # None
           /\ TheValue(nearest.celestial).id \in {40161705, 40161708} }

\* the notification lists of the character of a corporation: nothing, a
\* Started notification of refinery 1 and the cancellation after it, or a
\* Started notification of refinery 4.  The character receives the
\* notifications of the structures of its corporation, whichever Owner row
\* the refinery is stored under.
CorporationBatches ==
    { << >>,
      << [type |-> "MoonminingExtractionStarted", timestamp |-> 1,
          text |-> [structureID |-> 1, moonID |-> 40161708,
                    readyTime |-> 1000, autoTime |-> 1300,
                    startedBy |-> 1001, oreVolumeByType |-> OresB]],
         [type |-> "MoonminingExtractionCancelled", timestamp |-> 2,
          text |-> [structureID |-> 1, moonID |-> 40161708,
                    cancelledBy |-> 1002]] >>,
      << [type |-> "MoonminingExtractionStarted", timestamp |-> 1,
          text |-> [structureID |-> 4, moonID |-> 40161710,
                    readyTime |-> 2000, autoTime |-> 2300,
                    oreVolumeByType |-> OresB]] >> }

\* the rows that belong to a corporation: its refineries, their
\* extractions and the products of these
RowsOf(db, corporation) ==
    LET owned == Owner_refineries(db, corporation)
        mined == { e \in db.extractions : e.refinery \in owned }
    IN [refineries |-> [r \in owned |-> Refinery_get(db, r)],
        extractions |-> mined,
        products |-> { p \in db.products :
                         \E e \in mined : e.id = p.extraction }]

\* the tasks of the chain that update_mining_corporation queues (tasks.py
\* 37-41), in their order
TasksOfChain ==
    << "update_refineries_from_esi", "update_extractions_from_esi",
       "mark_successful_update" >>

\* the place of a task in the chain
PlaceInChain(task) == CHOOSE i \in DOMAIN TasksOfChain : TasksOfChain[i] = task

\* a task waits in the broker for a worker process
Queued(task) == [task |-> task, status |-> "queued"]

\* nothing was queued
NoTask == [task |-> "", status |-> "none"]

\* chain(...): the next task is queued when the task before it returned;
\* the tasks after one that raised are never run
chain(exception, task) ==
    IF exception # "" THEN [task |-> task, status |-> "failed"]
    ELSE IF PlaceInChain(task) = Len(TasksOfChain)
    THEN [task |-> task, status |-> "done"]
    ELSE Queued(TasksOfChain[PlaceInChain(task) + 1])

\* the extraction of refinery 4, stored by earlier updates
OtherExtraction ==
    [id |-> 100, refinery |-> 4, ready_time |-> ldap_time_2_datetime(3000),
     auto_time |-> ldap_time_2_datetime(3300), started_by |-> None,
     value |-> Some(Extraction_calc_value(
                   ExtractionProduct_get_or_create({}, 100, OresB), 100,
                   << 45506, 46676 >>)),
     is_jackpot |-> Some(FALSE)]

\* the database with refinery 4 of corporation 2002 and its extraction
WithOtherCorporation(db) ==
    [db EXCEPT
       !.refinery_moon = (4 :> Some(40161710)) @@ @,
       !.refinery_row = (4 :> RefineryRow("Athanor 4", 35835, 2002)) @@ @,
       !.moons = @ \cup {40161710},
       !.extractions = @ \cup {OtherExtraction},
       !.products = ExtractionProduct_get_or_create(@, 100, OresB)]

\* the Owner rows before the first call: corporation 2001 is enabled,
\* corporation 2002 is not; both were updated successfully at time 0
OwnerRows ==
    (2001 :> [is_enabled |-> TRUE, last_update_ok |-> Some(TRUE),
              last_update_at |-> Some(0)]
       @@ 2002 :> [is_enabled |-> FALSE, last_update_ok |-> Some(TRUE),
                   last_update_at |-> Some(0)])

\* the chains: one per corporation and call, the calls of
\* run_regular_updates and the uses of the admin action numbered in the
\* order in which they begin
Chains == Corporations \X (1..MaxCycles)

\* A chain runs one task at a time, so the execution of a task is named
\* after its chain << corporation, call >>.  No task of the chain is
\* running.  A running task holds, beside what an execution of
\* update_extractions_from_esi holds (IdleWorker): owner, the Owner object
\* that MiningCorporation.objects.get(pk=...) loaded, refineries, the keys
\* of the dict of update_refineries_from_esi, listed, the refineries its
\* for loop has yet to visit, moon, the moon that nearest_celestial found,
\* and collected, the rows that the deletion has selected
FreeWorker ==
    [ pc |-> "free", queue |-> << >>, started |-> << >>, refinery |-> None,
      started_by |-> None, extraction |-> None, ores |-> << >>,
      raised |-> "", owner |-> None, refineries |-> << >>,
      listed |-> << >>, moon |-> None, collected |-> NoneCollected ]

\* the database the updates start from: refinery 1 of corporation 2001
\* without moon, refinery 4 of corporation 2002, the rows of eveuniverse
\* stored
UpdateDatabases ==
    { WithEveUniverse(WithOtherCorporation(db)) :
        db \in { d \in InitialDatabases : d.moons = {} } }

InitUpdates ==
    /\ \E db \in UpdateDatabases :
         /\ refinery_moon = db.refinery_moon
         /\ refinery_row = db.refinery_row
         /\ moons = db.moons
         /\ eve_entities = db.eve_entities
         /\ eve_universe = db.eve_universe
         /\ extractions = db.extractions
         /\ products = db.products
         /\ next_extraction_id = db.next_extraction_id
    /\ pc = "idle"
    /\ notifications = << >>
    /\ queue = << >>
    /\ last_extraction_started = << >>
    /\ raised = ""
    /\ runs = 0
    /\ applied = << >>
    /\ at_start = Database
    /\ before = Database
    /\ workers = [w \in Chains |-> FreeWorker]
    /\ valuation = NoValuation
    /\ moon_valuation = NoMoonValuation
    /\ refinery_update = NoRefineryUpdate
    /\ update_cycle =
         [owners |-> OwnerRows,
          chains |-> [w \in Chains |-> NoTask],
          now |-> 1,
          calls |-> << >>,
          tasks |-> 0]

\* what the tasks leave unchanged of the runs of the other specifications
UpdatesUnchanged ==
    UNCHANGED << pc, notifications, queue, last_extraction_started, raised,
                 runs, applied, at_start, before, valuation, moon_valuation,
                 refinery_update >>

\* a step that sends no statement to the database
DatabaseUnchanged == Stored(Database)

\* MiningCorporation.objects.filter(is_enabled=True) (tasks.py 26)
corporations_to_update(owners) ==
    { c \in DOMAIN owners : owners[c].is_enabled }

\* run_regular_updates, tasks.py 26-29 up to the UPDATE, whatever chains
\* are queued or under way: the SELECT of the pks of the enabled
\* corporations (the len() of line 28, which keeps the pks) and the
\* reading of the clock for the UPDATE of line 29.  The SELECT reads
\* is_enabled alone, which nothing in the model changes.
RunRegularUpdates ==
    /\ Len(update_cycle.calls) < MaxCycles
    /\ update_cycle' =
         [update_cycle EXCEPT
            !.calls = Append(@,
                [origin |-> "run_regular_updates", pc |-> "update",
                 corporation_pks |->
                     corporations_to_update(update_cycle.owners),
                 now |-> Some(update_cycle.now)]),
            !.now = @ + 1]
    /\ DatabaseUnchanged
    /\ UNCHANGED workers
    /\ UpdatesUnchanged

\* run_regular_updates, tasks.py 29-31: the UPDATE of the rows that are
\* enabled when it runs, with the time read before, and one
\* update_mining_corporation.delay per pk of the SELECT
RunRegularUpdatesUpdate(call) ==
    /\ call \in DOMAIN update_cycle.calls
    /\ update_cycle.calls[call].pc = "update"
    /\ update_cycle' =
         [update_cycle EXCEPT
            !.owners = [c \in Corporations |->
                          IF c \in corporations_to_update(update_cycle.owners)
                          THEN [@[c] EXCEPT
                                  !.last_update_ok = None,
                                  !.last_update_at =
                                      update_cycle.calls[call].now]
                          ELSE @[c]],
            !.chains = [w \in Chains |->
                          IF /\ w[1] \in update_cycle.calls[call]
                                             .corporation_pks
                             /\ w[2] = call
                          THEN Queued("update_mining_corporation")
                          ELSE @[w]],
            !.calls[call].pc = "done"]
    /\ DatabaseUnchanged
    /\ UNCHANGED workers
    /\ UpdatesUnchanged

\* MiningCorporationAdmin.update_mining_corporation (admin.py 68-72): one
\* turn of the loop over the selected corporations, enabled or not
AdminUpdateMiningCorporation(c) ==
    /\ Len(update_cycle.calls) < MaxCycles
    /\ update_cycle' =
         [update_cycle EXCEPT
            !.calls = Append(@,
                [origin |-> "admin", pc |-> "done",
                 corporation_pks |-> {c}, now |-> None]),
            !.chains[<< c, Len(update_cycle.calls) + 1 >>] =
                Queued("update_mining_corporation")]
    /\ DatabaseUnchanged
    /\ UNCHANGED workers
    /\ UpdatesUnchanged

\* the task update_mining_corporation (tasks.py 34-41): it queues the
\* chain, whose first task waits for a worker process.  The task sends no
\* statement, so the model keeps no execution for it.
UpdateMiningCorporation(w) ==
    /\ update_cycle.chains[w] = Queued("update_mining_corporation")
    /\ update_cycle' =
         [update_cycle EXCEPT !.chains[w] = Queued(TasksOfChain[1])]
    /\ DatabaseUnchanged
    /\ UNCHANGED workers
    /\ UpdatesUnchanged

\* a worker process is free and takes the queued task of a chain; the
\* task begins with MiningCorporation.objects.get(pk=corporation_pk)
\* (tasks.py 47, 54, 61) and keeps the Owner row as it is at this moment
TaskStarts(w, task) ==
    /\ update_cycle.chains[w] = Queued(task)
    /\ Cardinality({ v \in Chains : workers[v].pc # "free" }) < MaxWorkers
    /\ update_cycle.tasks < MaxTasks
    /\ update_cycle' = [update_cycle EXCEPT !.chains[w].status = "running",
                                            !.tasks = @ + 1]
    /\ DatabaseUnchanged
    /\ UpdatesUnchanged

\* the Owner row that the task of chain w loads
Loaded(w) == [FreeWorker EXCEPT !.owner = Some(update_cycle.owners[w[1]])]

\* the refineries that the for loop of update_refineries_from_esi does
\* not visit next: those at the head of the list whose details request
\* raises OSError, which _update_or_create_refinery_from_esi catches (lines
\* 409-415)
RECURSIVE SkipFailed(_, _)
SkipFailed(listed, fetch_ok) ==
    IF listed = << >> THEN << >>
    ELSE IF fetch_ok[Head(listed)] THEN listed
    ELSE SkipFailed(Tail(listed), fetch_ok)

\* the for loop of update_refineries_from_esi goes on over the refineries
\* it has yet to visit, up to its next statement: the update_or_create of
\* the first refinery whose details request answers, or the removal
Visit(worker, listed, fetch_ok) ==
    [worker EXCEPT !.listed = SkipFailed(listed, fetch_ok),
                   !.moon = None, !.refinery = None,
                   !.pc = IF SkipFailed(listed, fetch_ok) = << >>
                          THEN "remove" ELSE "update_or_create"]

\* what the details requests for the refineries of a list may answer
DetailsAnswers(listed) == [{ listed[i] : i \in DOMAIN listed } -> BOOLEAN]

\* the task update_refineries_from_esi (tasks.py 44-48) and the method up
\* to its first statement (models.py 380-383, 391-416): the request for
\* the structure list, which may raise OSError, the dict of the refineries
\* among the structures, and the details requests
UpdateRefineriesFromEsi(w) ==
    /\ TaskStarts(w, "update_refineries_from_esi")
    /\ \E list_ok \in BOOLEAN, structures \in CorporationStructureLists :
         LET refineries == fetch_refineries_from_esi(structures)
         IN \E fetch_ok \in DetailsAnswers(refineries) :
              workers' = [workers EXCEPT ![w] =
                 IF ~ list_ok THEN Failed(Loaded(w), "OSError")
                 ELSE Visit([Loaded(w) EXCEPT !.refineries = refineries],
                            refineries, fetch_ok)]

\* _update_or_create_refinery_from_esi, lines 416-424:
\* Refinery.objects.update_or_create with the name and the type of the
\* details and self as owner, one transaction; the task keeps the object
\* it returns
WorkerRefineryUpdateOrCreate(w) ==
    /\ workers[w].pc = "update_or_create"
    /\ \E fetch_ok \in DetailsAnswers(Tail(workers[w].listed)) :
         LET structure_id == Head(workers[w].listed)
             stored == Refinery_update_or_create(
                           Database, structure_id,
                           StructureNames[structure_id],
                           StructureTypes[structure_id], w[1])
         IN /\ Stored(stored)
            /\ workers' = [workers EXCEPT ![w] =
                  IF stored.refinery_moon[structure_id] = None
                  THEN [@ EXCEPT
                          !.refinery =
                              Some(Refinery_get(stored, structure_id)),
                          !.pc = "nearest_celestial"]
                  ELSE Visit(@, Tail(workers[w].listed), fetch_ok)]
    /\ UNCHANGED update_cycle
    /\ UpdatesUnchanged

\* update_moon_from_structure_info, lines 557-573: the lookups in
\* eveuniverse.  EveSolarSystem.objects.get_or_create_esi is the SELECT of
\* the stored row and, when there is none, the request to ESI that stores
\* the row or raises OSError, which nothing catches; nearest_celestial
\* raises OSError, which is caught, or returns nothing, a planet or a moon
\* whose EveMoon row it stores.  What is no moon is left aside.
WorkerNearestCelestial(w) ==
    /\ workers[w].pc = "nearest_celestial"
    /\ \E system_ok \in BOOLEAN, nearest \in CorporationCelestials,
          fetch_ok \in DetailsAnswers(Tail(workers[w].listed)) :
         LET solar_system == get_or_create_esi(Database, SolarSystem,
                                               system_ok)
             is_moon == /\ nearest.raised = ""
                        /\ nearest.celestial # None
                        /\ TheValue(nearest.celestial).eve_type
                               = EVE_TYPE_ID_MOON
         IN IF solar_system.raised # ""
            THEN /\ Stored(solar_system)
                 /\ workers' = [workers EXCEPT ![w] =
                                   Failed(@, solar_system.raised)]
            ELSE IF is_moon
            THEN /\ Stored([solar_system EXCEPT !.eve_universe =
                               @ \cup {TheValue(nearest.celestial).id}])
                 /\ workers' = [workers EXCEPT ![w] =
                       [@ EXCEPT
                          !.moon = Some(TheValue(nearest.celestial).id),
                          !.pc = "structure_moon_select"]]
            ELSE /\ Stored(solar_system)
                 /\ workers' = [workers EXCEPT ![w] =
                       Visit(@, Tail(workers[w].listed), fetch_ok)]
    /\ UNCHANGED update_cycle
    /\ UpdatesUnchanged

\* update_moon_from_structure_info, line 574: the SELECT of
\* Moon.objects.get_or_create
WorkerStructureMoonSelect(w) ==
    /\ workers[w].pc = "structure_moon_select"
    /\ workers' = [workers EXCEPT ![w].pc =
          IF TheValue(workers[w].moon) \in moons
          THEN "structure_refinery_save" ELSE "structure_moon_insert"]
    /\ DatabaseUnchanged
    /\ UNCHANGED update_cycle
    /\ UpdatesUnchanged

\* the INSERT of Moon.objects.get_or_create; when another task has stored
\* the moon in between, get_or_create catches the IntegrityError and its
\* second SELECT returns that row (no Moon row is ever deleted)
WorkerStructureMoonInsert(w) ==
    /\ workers[w].pc = "structure_moon_insert"
    /\ Stored([Database EXCEPT !.moons = @ \cup workers[w].moon])
    /\ workers' = [workers EXCEPT ![w].pc = "structure_refinery_save"]
    /\ UNCHANGED update_cycle
    /\ UpdatesUnchanged

\* update_moon_from_structure_info, lines 575-576: save() of the refinery,
\* its UPDATE
WorkerStructureRefinerySave(w) ==
    /\ workers[w].pc = "structure_refinery_save"
    /\ \E fetch_ok \in DetailsAnswers(Tail(workers[w].listed)) :
         LET saved == Refinery_save_update(
                          Database, TheValue(workers[w].refinery),
                          workers[w].moon)
         IN /\ Stored(saved.db)
            /\ workers' = [workers EXCEPT ![w] =
                  IF saved.missing
                  THEN [@ EXCEPT !.pc = "structure_refinery_insert"]
                  ELSE IF saved.refused # "" THEN Failed(@, saved.refused)
                  ELSE Visit(@, Tail(workers[w].listed), fetch_ok)]
    /\ UNCHANGED update_cycle
    /\ UpdatesUnchanged

\* update_moon_from_structure_info, line 576: the INSERT of save(), when
\* another task has deleted the row of the refinery
WorkerStructureRefineryInsert(w) ==
    /\ workers[w].pc = "structure_refinery_insert"
    /\ \E fetch_ok \in DetailsAnswers(Tail(workers[w].listed)) :
         LET saved == Refinery_save_insert(
                          Database, TheValue(workers[w].refinery),
                          workers[w].moon)
         IN /\ Stored(saved.db)
            /\ workers' = [workers EXCEPT ![w] =
                  IF saved.refused # "" THEN Failed(@, saved.refused)
                  ELSE Visit(@, Tail(workers[w].listed), fetch_ok)]
    /\ UNCHANGED update_cycle
    /\ UpdatesUnchanged

\* update_refineries_from_esi, line 386, first query of the deletion: the
\* SELECT of the refineries of the owner that the dict does not list.
\* Nothing is deleted when there are none.
WorkerRemoveRefineries(w) ==
    /\ workers[w].pc = "remove"
    /\ LET unlisted == Collector_collect(Database, w[1],
                                         workers[w].refineries).refineries
       IN workers' = [workers EXCEPT ![w] =
             [@ EXCEPT !.collected.refineries = unlisted,
                       !.pc = IF unlisted = {} THEN "owner_now"
                              ELSE "remove_extractions"]]
    /\ DatabaseUnchanged
    /\ UNCHANGED update_cycle
    /\ UpdatesUnchanged

\* line 386, second query of the deletion: the SELECT of the extractions
\* of the refineries it has selected (their products are deleted by the
\* foreign key, without a query)
WorkerRemoveExtractions(w) ==
    /\ workers[w].pc = "remove_extractions"
    /\ workers' = [workers EXCEPT ![w] =
          [@ EXCEPT !.collected.extractions =
                        { e.id : e \in { x \in extractions :
                              x.refinery
                                  \in workers[w].collected.refineries } },
                    !.pc = "remove_delete"]]
    /\ DatabaseUnchanged
    /\ UNCHANGED update_cycle
    /\ UpdatesUnchanged

\* line 386, the transaction of the deletion; nothing catches its
\* IntegrityError
WorkerRemoveDelete(w) ==
    /\ workers[w].pc = "remove_delete"
    /\ LET db == Collector_delete(Database, workers[w].collected)
       IN /\ Stored(db)
          /\ workers' = [workers EXCEPT ![w] =
                IF db.raised # "" THEN Failed(@, db.raised)
                ELSE [@ EXCEPT !.pc = "owner_now"]]
    /\ UNCHANGED update_cycle
    /\ UpdatesUnchanged

\* update_refineries_from_esi, line 388: self.last_update_at = now(), the
\* reading of the clock
WorkerOwnerNow(w) ==
    /\ workers[w].pc = "owner_now"
    /\ workers' = [workers EXCEPT ![w] =
          [@ EXCEPT !.owner = Some([TheValue(@) EXCEPT !.last_update_at =
                                       Some(update_cycle.now)]),
                    !.pc = "owner_save"]]
    /\ update_cycle' = [update_cycle EXCEPT !.now = @ + 1]
    /\ DatabaseUnchanged
    /\ UpdatesUnchanged

\* update_refineries_from_esi, line 389: self.save(), the UPDATE of every
\* column of the Owner row with what the task holds
WorkerOwnerSave(w) ==
    /\ workers[w].pc = "owner_save"
    /\ update_cycle' =
         [update_cycle EXCEPT !.owners[w[1]] = TheValue(workers[w].owner)]
    /\ workers' = [workers EXCEPT ![w].pc = "done"]
    /\ DatabaseUnchanged
    /\ UpdatesUnchanged

\* the task update_extractions_from_esi (tasks.py 51-55) and the method up
\* to its first statement (models.py 429-446): the request for the
\* notifications, which may raise OSError; the method returns when there
\* are none
UpdateExtractionsFromEsi(w) ==
    /\ TaskStarts(w, "update_extractions_from_esi")
    /\ \E fetch_ok \in BOOLEAN, fetched \in CorporationBatches :
         workers' = [workers EXCEPT ![w] =
            IF ~ fetch_ok THEN Failed(Loaded(w), "OSError")
            ELSE IF fetched = << >> THEN [Loaded(w) EXCEPT !.pc = "done"]
            ELSE [Loaded(w) EXCEPT !.queue = SortedByTimestamp(fetched),
                                   !.pc = "refinery"]]

\* the task mark_successful_update, line 61: the SELECT of the Owner row
MarkSuccessfulUpdate(w) ==
    /\ TaskStarts(w, "mark_successful_update")
    /\ workers' = [workers EXCEPT ![w] = [Loaded(w) EXCEPT !.pc = "mark"]]

\* mark_successful_update, lines 62-63: last_update_ok = True and save(),
\* the UPDATE of every column of the Owner row with what the task holds
WorkerMarkSuccessfulUpdate(w) ==
    /\ workers[w].pc = "mark"
    /\ update_cycle' =
         [update_cycle EXCEPT
            !.owners[w[1]] =
                [TheValue(workers[w].owner) EXCEPT
                    !.last_update_ok = Some(TRUE)]]
    /\ workers' = [workers EXCEPT ![w].pc = "done"]
    /\ DatabaseUnchanged
    /\ UpdatesUnchanged

\* the task has returned or raised: Celery queues the next task of the
\* chain or drops the rest, and the worker process is free
TaskEnds(w) ==
    /\ workers[w].pc \in {"done", "failed"}
    /\ update_cycle' =
         [update_cycle EXCEPT
            !.chains[w] = chain(workers[w].raised, update_cycle.chains[w].task)]
    /\ workers' = [workers EXCEPT ![w] = FreeWorker]
    /\ DatabaseUnchanged
    /\ UpdatesUnchanged

NextUpdates ==
    \/ RunRegularUpdates
    \/ \E call \in 1..MaxCycles : RunRegularUpdatesUpdate(call)
    \/ \E c \in Corporations : AdminUpdateMiningCorporation(c)
    \/ \E w \in Chains :
          \/ UpdateMiningCorporation(w)
          \/ UpdateRefineriesFromEsi(w)
          \/ WorkerRefineryUpdateOrCreate(w)
          \/ WorkerNearestCelestial(w)
          \/ WorkerStructureMoonSelect(w)
          \/ WorkerStructureMoonInsert(w)
          \/ WorkerStructureRefinerySave(w)
          \/ WorkerStructureRefineryInsert(w)
          \/ WorkerRemoveRefineries(w)
          \/ WorkerRemoveExtractions(w)
          \/ WorkerRemoveDelete(w)
          \/ WorkerOwnerNow(w)
          \/ WorkerOwnerSave(w)
          \/ UpdateExtractionsFromEsi(w)
          \/ WorkerRefinery(w)
          \/ WorkerEveMoon(w)
          \/ WorkerMoonSelect(w)
          \/ WorkerMoonInsert(w)
          \/ WorkerRefinerySave(w)
          \/ WorkerRefineryInsert(w)
          \/ WorkerEntitySelect(w)
          \/ WorkerEntityCreate(w)
          \/ WorkerExtractionSelect(w)
          \/ WorkerExtractionInsert(w)
          \/ WorkerExtractionSelectAgain(w)
          \/ WorkerEveOreType(w)
          \/ WorkerProductSelect(w)
          \/ WorkerProductInsert(w)
          \/ WorkerProductSelectAgain(w)
          \/ WorkerCalcValue(w)
          \/ WorkerCalcIsJackpot(w)
          \/ WorkerSave(w)
          \/ WorkerDelete(w)
          \/ MarkSuccessfulUpdate(w)
          \/ WorkerMarkSuccessfulUpdate(w)
          \/ TaskEnds(w)

SpecUpdates == InitUpdates /\ [][NextUpdates]_vars

----------------------------------------------------------------------------
\* Vocabulary of the properties

IsType(n, short) == n.type = "Moonmining" \o short

\* the key (refinery, ready_time) of a row and of a Started notification
KeyOf(e) == << e.refinery, e.ready_time >>
KeyOfStarted(n) ==
    << n.text.structureID, ldap_time_2_datetime(n.text.readyTime) >>

RowsWithKey(rows, key) == { e \in rows : KeyOf(e) = key }

\* a column of a row; None when the table has no such column
FieldOf(e, column) == IF column \in DOMAIN e THEN Some(e[column]) ELSE None

\* the product rows of an extraction as (ore type, volume) pairs
ProductPairs(rows, pk) ==
    { [ore_type |-> p.ore_type, volume |-> p.volume] : p \in ProductsOf(rows, pk) }

\* the (ore type, volume) pairs of an oreVolumeByType mapping
OrePairs(ore_volume_by_type) ==
    { [ore_type |-> ore_volume_by_type[i][1],
       volume |-> ore_volume_by_type[i][2]] :
        i \in DOMAIN ore_volume_by_type }

\* what is persisted about extractions, primary keys left out
Persisted(db) ==
    { [refinery |-> e.refinery, ready_time |-> e.ready_time,
       auto_time |-> e.auto_time, started_by |-> e.started_by,
       value |-> e.value, is_jackpot |-> e.is_jackpot,
       products |-> ProductPairs(db.products, e.id)] : e \in db.extractions }

RunEnded == pc \in {"done", "failed"}

\* the notification the loop visited last
LastApplied == applied[Len(applied)]

\* the iteration that ran last completed without an exception
LastCompleted == Len(applied) > 0 /\ raised = ""

----------------------------------------------------------------------------
\* C1: in every state, also between the iterations of a run and after a
\* replay of the list, at most one Extraction row exists per
\* (refinery, ready_time).
C1_OneExtractionPerKey ==
    \A e1, e2 \in extractions : KeyOf(e1) = KeyOf(e2) => e1 = e2

\* a second run has visited a Started notification whose extraction the
\* first run left behind, and the key still has its one row
C1_Witness ==
    /\ runs = 2
    /\ LastCompleted
    /\ IsType(LastApplied, "ExtractionStarted")
    /\ RowsWithKey(before.extractions, KeyOfStarted(LastApplied)) # {}
    /\ Cardinality(RowsWithKey(extractions, KeyOfStarted(LastApplied))) = 1

----------------------------------------------------------------------------
\* C2 as stated: when the replay of a list ends, the persisted extractions
\* and products are those the replay started from.
C2_ReplayChangesNothing ==
    (runs >= 2 /\ RunEnded) => Persisted(Database) = Persisted(at_start)

----------------------------------------------------------------------------
\* The lists that hold the notifications of the fetched list in another
\* order: one per permutation of its positions

Positions == DOMAIN notifications

PositionPermutations ==
    { f \in [Positions -> Positions] : \A i \in Positions : \E j \in Positions : f[j] = i }

Reordered(f) == [i \in Positions |-> notifications[f[i]]]

\* the reordering keeps the notifications of equal timestamp in the order
\* they have in the fetched list
KeepsTies(f) ==
    \A i, j \in Positions :
        (i < j /\ notifications[f[i]].timestamp = notifications[f[j]].timestamp)
            => f[i] < f[j]

\* what update_extractions_from_esi leaves persisted when it runs over a
\* list from the database the current run began with
RunResult(fetched, answers) ==
    LET db == update_extractions_from_esi(at_start, fetched, answers)
    IN [persisted |-> Persisted(db), refinery_moon |-> db.refinery_moon,
        raised |-> db.raised]

\* the current state, to compare with RunResult
CurrentResult ==
    [persisted |-> Persisted(Database), refinery_moon |-> refinery_moon,
     raised |-> raised]

\* every character whose lookup the list can trigger is stored locally, so
\* that no run depends on ESI
CharactersResolved ==
    \A i \in Positions :
        "startedBy" \in DOMAIN notifications[i].text
            => notifications[i].text.startedBy \in at_start.eve_entities

\* no request of the run to ESI has failed: the characters are stored, and
\* no request for an EveMoon or an EveOreType raised OSError
NoRequestFailed == CharactersResolved /\ raised # "OSError"

\* C3 as stated, for the runs that raise nothing: when the first run has
\* returned, running over any reordering of the fetched list without an
\* exception would have left the same persisted state.
C3_AnyOrderSameResult ==
    (runs = 1 /\ pc = "done") =>
        \A f \in PositionPermutations : \A answer \in Answers :
            LET answers == EveryLookup(Len(notifications), answer)
            IN RunResult(Reordered(f), answers).raised = ""
                => RunResult(Reordered(f), answers) = RunResult(notifications, answers)

\* the answers of the outside to a run over n notifications in which ESI
\* answers or fails the lookup of the character iteration by iteration and
\* the database returns the products in one order throughout
RunAnswers(n) ==
    { [i \in 1..n |-> [Answered(row_order) EXCEPT !.esi_ok = esi_ok[i]]] :
        esi_ok \in [1..n -> BOOLEAN], row_order \in QueryOrders }

\* the first run has fetched its list and has not yet entered the loop
RunFetched == runs = 1 /\ pc = "running" /\ applied = << >>

\* C3, amended: the same for every reordering that keeps notifications of
\* equal timestamp in their input order (every reordering when all
\* timestamps differ), whatever the outside answers, the exceptions
\* included.  Once the list is fetched, every run over such a reordering
\* from the database of that moment ends as the run over the list does;
\* when the run has ended, the loop has visited the notifications in the
\* order every such reordering sorts to, and the run has left that state.
C3_TieKeepingOrderSameResult ==
    /\ RunFetched =>
          \A answers \in RunAnswers(Len(notifications)) :
              LET result == RunResult(notifications, answers)
              IN \A f \in PositionPermutations :
                    KeepsTies(f) => RunResult(Reordered(f), answers) = result
    /\ (runs = 1 /\ RunEnded) =>
          /\ \A f \in PositionPermutations :
                KeepsTies(f) => SortedByTimestamp(Reordered(f))
                                   = SortedByTimestamp(notifications)
          /\ NoRequestFailed =>
                \A row_order \in QueryOrders :
                  CurrentResult
                      = RunResult(notifications,
                                  EveryLookup(Len(notifications),
                                              Answered(row_order)))

\* a run over three notifications that arrived out of timestamp order, with
\* a cancellation that removed an extraction, and a reordering other than
\* the identity that keeps the ties
C3_Witness ==
    /\ runs = 1
    /\ pc = "done"
    /\ Len(notifications) = 3
    /\ notifications # SortedByTimestamp(notifications)
    /\ \E i \in 1..Len(applied) :
          /\ IsType(applied[i], "ExtractionCancelled")
          /\ \E j \in 1..(i - 1) : IsType(applied[j], "ExtractionStarted")
    /\ extractions # {}
    /\ \E f \in PositionPermutations :
          KeepsTies(f) /\ Reordered(f) # notifications

----------------------------------------------------------------------------
\* the notifications of the fetched list with a given timestamp, in input
\* order
WithTimestamp(ts) ==
    SelectSeq(notifications, LAMBDA n : n.timestamp = ts)

RECURSIVE ByAscendingTimestamp(_)
\* the fetched list grouped by ascending timestamp, each group in input order
ByAscendingTimestamp(stamps) ==
    IF stamps = {} THEN << >>
    ELSE LET least == CHOOSE t \in stamps : \A u \in stamps : t <= u
         IN WithTimestamp(least) \o ByAscendingTimestamp(stamps \ {least})

\* C4: the loop visits the notifications by ascending timestamp, those of
\* equal timestamp in input order; no Cancelled or Finished notification
\* is visited while a Started notification of an earlier timestamp waits.
C4_AppliedInTimestampOrder ==
    pc # "idle" =>
        /\ applied \o queue = ByAscendingTimestamp(Timestamps)
        /\ \A i \in 1..Len(applied) : \A j \in 1..Len(queue) :
              ~ /\ \/ IsType(applied[i], "ExtractionCancelled")
                   \/ IsType(applied[i], "ExtractionFinished")
                /\ IsType(queue[j], "ExtractionStarted")
                /\ queue[j].timestamp < applied[i].timestamp

\* a Cancelled notification that arrived first was visited after the
\* Started notification of an earlier timestamp, and two notifications of
\* equal timestamp were visited in input order
C4_Witness ==
    /\ pc = "done"
    /\ Len(notifications) = 3
    /\ IsType(notifications[1], "ExtractionCancelled")
    /\ IsType(notifications[2], "ExtractionStarted")
    /\ notifications[2].timestamp < notifications[1].timestamp
    /\ notifications[3].timestamp = notifications[1].timestamp
    /\ applied = << notifications[2], notifications[1], notifications[3] >>

----------------------------------------------------------------------------
\* The last iteration and the extraction it is about

\* the structure a notification names, 0 when its text names none
StructureOf(n) ==
    IF "structureID" \in DOMAIN n.text THEN n.text.structureID ELSE 0

\* positions of the notifications of structure s that the loop visited
\* before its last iteration
EarlierOf(s) ==
    { i \in 1..(Len(applied) - 1) : StructureOf(applied[i]) = s }

Latest(indices) == CHOOSE i \in indices : \A j \in indices : j <= i

\* the notification visited last belongs to a known refinery whose latest
\* earlier notification of the run is a Started one of an earlier timestamp:
\* the extraction started last on the structure and not finished since
FollowsStart ==
    /\ LastCompleted
    /\ StructureOf(LastApplied) \in DOMAIN refinery_moon
    /\ EarlierOf(StructureOf(LastApplied)) # {}
    /\ LET start == applied[Latest(EarlierOf(StructureOf(LastApplied)))]
       IN /\ IsType(start, "ExtractionStarted")
          /\ start.timestamp < LastApplied.timestamp

StartFollowed == applied[Latest(EarlierOf(StructureOf(LastApplied)))]

\* the product rows of the extraction of a key, as pairs
PairsOfKey(db, key) ==
    UNION { ProductPairs(db.products, e.id) : e \in RowsWithKey(db.extractions, key) }

\* the status that the code keeps of a row it created and still holds as
\* the last started extraction of its structure: the table has no status
\* column, a row is a started extraction as long as it exists
HeldAsStarted(e) ==
    /\ e \in extractions
    /\ e.refinery \in DOMAIN last_extraction_started
    /\ last_extraction_started[e.refinery] = Some(e.id)

----------------------------------------------------------------------------
\* C5 as stated: a Started notification of a known refinery without an
\* extraction for its key creates exactly one extraction with the status
\* STARTED, the ready_time (the key) and the auto_time of the event,
\* started_by the character the event names (None if it names none), and
\* one product per ore type with the volume of the event.
C5_Precondition ==
    /\ LastCompleted
    /\ IsType(LastApplied, "ExtractionStarted")
    /\ StructureOf(LastApplied) \in DOMAIN before.refinery_moon
    /\ RowsWithKey(before.extractions, KeyOfStarted(LastApplied)) = {}

C5_StartedCreatesExtraction ==
    C5_Precondition =>
        LET rows == RowsWithKey(extractions, KeyOfStarted(LastApplied))
        IN /\ Cardinality(rows) = 1
           /\ extractions = before.extractions \cup rows
           /\ \A e \in rows :
                /\ FieldOf(e, "status") = Some("STARTED")
                /\ e.auto_time
                       = LastApplied.text.autoTime \div TicksPerMicrosecond
                /\ e.started_by = IF "startedBy" \in DOMAIN LastApplied.text
                                  THEN Some(LastApplied.text.startedBy)
                                  ELSE None
                /\ ProductPairs(products, e.id)
                       = OrePairs(LastApplied.text.oreVolumeByType)
           /\ products \ ProductsOf(products, (CHOOSE e \in rows : TRUE).id)
                  = before.products

----------------------------------------------------------------------------
\* C6: after a Started notification and then, later and with no other
\* notification of the structure in between, a Cancelled one, the key has
\* exactly one extraction, with status CANCELED, canceled_at the time of the
\* cancellation, canceled_by its actor, and the products of the Started
\* notification.
C6_CancelKeepsCanceledExtraction ==
    (FollowsStart /\ IsType(LastApplied, "ExtractionCancelled")) =>
        LET key == KeyOfStarted(StartFollowed)
            rows == RowsWithKey(extractions, key)
        IN /\ Cardinality(rows) = 1
           /\ \A e \in rows :
                /\ FieldOf(e, "status") = Some("CANCELED")
                /\ FieldOf(e, "canceled_at") = Some(LastApplied.timestamp)
                /\ FieldOf(e, "canceled_by") = Some(LastApplied.text.cancelledBy)
           /\ PairsOfKey(Database, key) = PairsOfKey(before, key)

----------------------------------------------------------------------------
\* C7: a Cancelled notification that is the first notification of its
\* structure in the run, while the structure has an extraction that an
\* earlier run persisted, leaves that extraction with status CANCELED.
C7_CancelReachesEarlierExtraction ==
    ( /\ LastCompleted
      /\ IsType(LastApplied, "ExtractionCancelled")
      /\ EarlierOf(StructureOf(LastApplied)) = {}
      /\ \E e \in at_start.extractions : e.refinery = StructureOf(LastApplied) )
    => \A e \in at_start.extractions :
          e.refinery = StructureOf(LastApplied) =>
            \E c \in RowsWithKey(extractions, KeyOf(e)) :
                FieldOf(c, "status") = Some("CANCELED")

----------------------------------------------------------------------------
\* C8: an AutomaticFracture or LaserFired notification that follows the
\* Started notification of its structure leaves the extraction with status
\* FRACTURED, finished_at the time of the event, its products, and
\* fractured_by the firing character (None for an automatic fracture).
C8_FractureMarksExtraction ==
    ( /\ FollowsStart
      /\ \/ IsType(LastApplied, "AutomaticFracture")
         \/ IsType(LastApplied, "LaserFired") )
    => LET key == KeyOfStarted(StartFollowed)
           rows == RowsWithKey(extractions, key)
       IN /\ Cardinality(rows) = 1
          /\ \A e \in rows :
               /\ FieldOf(e, "status") = Some("FRACTURED")
               /\ FieldOf(e, "finished_at") = Some(LastApplied.timestamp)
               /\ FieldOf(e, "fractured_by") =
                      IF IsType(LastApplied, "LaserFired")
                      THEN Some(LastApplied.text.firedBy) ELSE None
          /\ PairsOfKey(Database, key) = PairsOfKey(before, key)

----------------------------------------------------------------------------
\* C9: a Finished notification that follows the Started notification of its
\* structure leaves the extraction finished, with finished_at the time of
\* the event and its products; a Finished notification of a structure
\* without an extraction (the refinery unknown, or known with its moon)
\* changes nothing and raises nothing.
C9_FinishedMarksExtraction ==
    /\ (FollowsStart /\ IsType(LastApplied, "ExtractionFinished")) =>
          LET key == KeyOfStarted(StartFollowed)
              rows == RowsWithKey(extractions, key)
          IN /\ Cardinality(rows) = 1
             /\ \A e \in rows :
                  /\ FieldOf(e, "status") \in {Some("COMPLETED"), Some("FINISHED")}
                  /\ FieldOf(e, "finished_at") = Some(LastApplied.timestamp)
             /\ PairsOfKey(Database, key) = PairsOfKey(before, key)
    /\ ( /\ Len(applied) > 0
         /\ IsType(LastApplied, "ExtractionFinished")
         /\ \/ StructureOf(LastApplied) \notin DOMAIN refinery_moon
            \/ before.refinery_moon[StructureOf(LastApplied)] # None
         /\ ~ \E e \in before.extractions : e.refinery = StructureOf(LastApplied) )
       => (raised = "" /\ Persisted(Database) = Persisted(before))

----------------------------------------------------------------------------
\* C10: a Started notification for a key whose extraction was cancelled,
\* finished or fractured earlier in the run does not bring the key back as
\* a started extraction: no row of the key is created, and no row of the
\* key is held as the started extraction of its structure again.

\* a Started notification of the key was followed at once, among the
\* notifications of its structure, by one that ends the extraction
KeyWasEnded(key) ==
    \E i, j \in 1..(Len(applied) - 1) :
        /\ i < j
        /\ IsType(applied[i], "ExtractionStarted")
        /\ KeyOfStarted(applied[i]) = key
        /\ StructureOf(applied[j]) = key[1]
        /\ ~ IsType(applied[j], "ExtractionStarted")
        /\ applied[i].timestamp < applied[j].timestamp
        /\ \A k \in (i + 1)..(j - 1) : StructureOf(applied[k]) # key[1]

C10_StartedNeverRevivesEndedKey ==
    ( /\ LastCompleted
      /\ IsType(LastApplied, "ExtractionStarted")
      /\ StructureOf(LastApplied) \in DOMAIN refinery_moon
      /\ KeyWasEnded(KeyOfStarted(LastApplied)) )
    => \A e \in RowsWithKey(extractions, KeyOfStarted(LastApplied)) :
          /\ \E b \in before.extractions : b.id = e.id
          /\ ~ HeldAsStarted(e)

----------------------------------------------------------------------------
\* C11: an extraction that a Cancelled, Finished or fracture notification
\* has ended is not changed or deleted by a later Cancelled, Finished or
\* fracture notification of its structure: when the latest Started
\* notification of the structure was followed by such a notification of a
\* later timestamp, the notification visited last leaves the extraction of
\* that key and its products as they were.
EndedBeforeLast ==
    /\ Len(applied) > 0
    /\ ~ IsType(LastApplied, "ExtractionStarted")
    /\ StructureOf(LastApplied) \in DOMAIN refinery_moon
    /\ \E i, j \in EarlierOf(StructureOf(LastApplied)) :
          /\ i < j
          /\ IsType(applied[i], "ExtractionStarted")
          /\ applied[i].timestamp < applied[j].timestamp
          /\ \A k \in EarlierOf(StructureOf(LastApplied)) :
                k > i => ~ IsType(applied[k], "ExtractionStarted")

\* the Started notification whose extraction was ended
StartEnded ==
    applied[Latest({ i \in EarlierOf(StructureOf(LastApplied)) :
                       IsType(applied[i], "ExtractionStarted") })]

C11_EndedExtractionStays ==
    EndedBeforeLast =>
        /\ RowsWithKey(extractions, KeyOfStarted(StartEnded))
             = RowsWithKey(before.extractions, KeyOfStarted(StartEnded))
        /\ PairsOfKey(Database, KeyOfStarted(StartEnded))
             = PairsOfKey(before, KeyOfStarted(StartEnded))

----------------------------------------------------------------------------
\* C12: a notification that lacks a required field of its text (structureID,
\* or readyTime, autoTime or oreVolumeByType of a Started notification) is
\* dropped: visiting it raises nothing, changes no extraction and no
\* product, and the run goes on.
Malformed(n) ==
    \/ "structureID" \notin DOMAIN n.text
    \/ /\ IsType(n, "ExtractionStarted")
       /\ ~ ({"readyTime", "autoTime", "oreVolumeByType"} \subseteq DOMAIN n.text)

C12_MalformedNotificationDropped ==
    (Len(applied) > 0 /\ Malformed(LastApplied)) =>
        /\ raised = ""
        /\ pc # "failed"
        /\ Persisted(Database) = Persisted(before)

----------------------------------------------------------------------------
\* C13: a second Cancelled notification of a structure, after a Started and
\* a Cancelled one with no Started in between, does what a single Cancelled
\* does: it raises nothing, leaves the database as the first one left it,
\* and the run goes on.
SecondCancel ==
    /\ Len(applied) > 0
    /\ IsType(LastApplied, "ExtractionCancelled")
    /\ StructureOf(LastApplied) \in DOMAIN refinery_moon
    /\ \E i, j \in EarlierOf(StructureOf(LastApplied)) :
          /\ i < j
          /\ IsType(applied[i], "ExtractionStarted")
          /\ IsType(applied[j], "ExtractionCancelled")
          /\ \A k \in EarlierOf(StructureOf(LastApplied)) :
                k > i => ~ IsType(applied[k], "ExtractionStarted")

C13_SecondCancelLikeOne ==
    SecondCancel =>
        /\ raised = ""
        /\ pc # "failed"
        /\ Persisted(Database) = Persisted(before)

----------------------------------------------------------------------------
\* C14: a Cancelled notification of a structure that has no extraction at
\* all (unknown refinery, or a refinery with its moon and no Extraction row)
\* is ignored: it raises nothing, creates, changes and deletes nothing, and
\* the run goes on.
NothingToCancel ==
    /\ Len(applied) > 0
    /\ IsType(LastApplied, "ExtractionCancelled")
    /\ \/ StructureOf(LastApplied) \notin DOMAIN refinery_moon
       \/ before.refinery_moon[StructureOf(LastApplied)] # None
    /\ ~ \E e \in before.extractions : e.refinery = StructureOf(LastApplied)

C14_CancelWithoutExtractionIgnored ==
    NothingToCancel =>
        /\ raised = ""
        /\ pc # "failed"
        /\ Persisted(Database) = Persisted(before)

----------------------------------------------------------------------------
\* C15: after a Started notification for a key whose extraction exists
\* already, the products of the extraction are exactly the ore types and
\* volumes of the notification.
C15_StartedReplacesProducts ==
    ( /\ LastCompleted
      /\ IsType(LastApplied, "ExtractionStarted")
      /\ StructureOf(LastApplied) \in DOMAIN refinery_moon
      /\ RowsWithKey(before.extractions, KeyOfStarted(LastApplied)) # {} )
    => PairsOfKey(Database, KeyOfStarted(LastApplied))
           = OrePairs(LastApplied.text.oreVolumeByType)

----------------------------------------------------------------------------
\* C16 as stated: after a Started notification of a structure without a
\* Refinery row the structure has a Refinery row (resolved, or recorded
\* as unresolved).
UnknownRefineryStarted ==
    /\ LastCompleted
    /\ IsType(LastApplied, "ExtractionStarted")
    /\ StructureOf(LastApplied) \notin DOMAIN before.refinery_moon

C16_UnknownRefineryResolved ==
    UnknownRefineryStarted =>
        StructureOf(LastApplied) \in DOMAIN refinery_moon

----------------------------------------------------------------------------
\* C17 as stated: the ready_time a Started notification stores is rounded
\* down to whole seconds: the extractions of the structure whose ready_time
\* lies in the second of the notification's readyTime are one row, with no
\* part of a second.
SecondOf(microseconds) == microseconds \div MicrosecondsPerSecond

KnownRefineryStarted ==
    /\ LastCompleted
    /\ IsType(LastApplied, "ExtractionStarted")
    /\ StructureOf(LastApplied) \in DOMAIN refinery_moon

C17_ReadyTimeInWholeSeconds ==
    KnownRefineryStarted =>
        LET same_second ==
              { e \in extractions :
                  /\ e.refinery = StructureOf(LastApplied)
                  /\ SecondOf(e.ready_time) =
                       SecondOf(LastApplied.text.readyTime
                                    \div TicksPerMicrosecond) }
        IN /\ Cardinality(same_second) = 1
           /\ \A e \in same_second : e.ready_time % MicrosecondsPerSecond = 0

\* C17, amended: the ready_time stored is the readyTime of the notification
\* in microseconds, not rounded to seconds; a Started notification maps to
\* the one extraction of its structure with that microsecond, and only
\* readyTime values of the same microsecond share an extraction.
C17_ReadyTimeInMicroseconds ==
    KnownRefineryStarted =>
        LET hit == { e \in extractions :
                       /\ e.refinery = StructureOf(LastApplied)
                       /\ e.ready_time = LastApplied.text.readyTime
                                             \div TicksPerMicrosecond }
        IN /\ Cardinality(hit) = 1
           /\ \A e \in hit : HeldAsStarted(e)
           /\ extractions \ hit \subseteq before.extractions

\* a Started notification with readyTime 1004 found the extraction that
\* one with readyTime 1000 had created, next to an extraction of the same
\* structure and second with another microsecond
C17_Witness ==
    /\ KnownRefineryStarted
    /\ LastApplied.text.readyTime = 1004
    /\ \E i \in EarlierOf(StructureOf(LastApplied)) :
          /\ IsType(applied[i], "ExtractionStarted")
          /\ applied[i].text.readyTime = 1000
    /\ \E e1, e2 \in extractions :
          /\ e1.refinery = e2.refinery
          /\ e1.refinery = StructureOf(LastApplied)
          /\ e1 \in before.extractions
          /\ e1.ready_time % MicrosecondsPerSecond # 0
          /\ e1.ready_time = 1004 \div TicksPerMicrosecond
          /\ e2.ready_time # e1.ready_time
          /\ SecondOf(e1.ready_time) = SecondOf(e2.ready_time)

----------------------------------------------------------------------------
\* C18: when two executions over the same list have both ended, neither has
\* failed, no key has two extractions, no extraction has two products of an
\* ore type, and the persisted state is that of two runs one after the
\* other.
BothEnded == \A w \in Workers : workers[w].pc \in {"done", "failed"}

SequentialResults ==
    { Persisted(update_extractions_from_esi(
          update_extractions_from_esi(at_start, notifications, first),
          notifications, second)) :
        first, second \in StoredAnswers(Len(notifications)) }

C18_InterleavedLikeSequential ==
    BothEnded =>
        /\ \A w \in Workers : workers[w].raised = ""
        /\ \A e1, e2 \in extractions : KeyOf(e1) = KeyOf(e2) => e1 = e2
        /\ \A p1, p2 \in products :
              (p1.extraction = p2.extraction /\ p1.ore_type = p2.ore_type)
                  => p1 = p2
        /\ Persisted(Database) \in SequentialResults

----------------------------------------------------------------------------
\* C19: the iteration over a notification of structure S leaves the
\* extractions and products of every other structure as they were, and a
\* list that interleaves the notifications of the structures in another way
\* (each structure's notifications applied in the same order) leaves the
\* same persisted state.
OfOtherStructures(db, structure_id) ==
    { [row |-> e, products |-> ProductPairs(db.products, e.id)] :
        e \in { x \in db.extractions : x.refinery # structure_id } }

\* the fetched list with its notifications at other places and timestamps
Retimed(f, stamps) ==
    [i \in Positions |-> [notifications[f[i]] EXCEPT !.timestamp = stamps[i]]]

\* type and text of the notifications of a structure in the order in which
\* the loop applies them
AppliedOfStructure(fetched, structure_id) ==
    LET own == SelectSeq(SortedByTimestamp(fetched),
                         LAMBDA n : StructureOf(n) = structure_id)
    IN [i \in DOMAIN own |-> [type |-> own[i].type, text |-> own[i].text]]

SameOrderPerStructure(fetched) ==
    \A i \in Positions :
        AppliedOfStructure(fetched, StructureOf(notifications[i]))
            = AppliedOfStructure(notifications, StructureOf(notifications[i]))

C19_OtherStructuresUntouched ==
    /\ Len(applied) > 0 =>
          OfOtherStructures(Database, StructureOf(LastApplied))
              = OfOtherStructures(before, StructureOf(LastApplied))
    /\ ( /\ runs = 1
         /\ RunEnded
         /\ \A i \in Positions : "structureID" \in DOMAIN notifications[i].text )
       => \A f \in PositionPermutations :
            \A stamps \in [Positions -> Timestamps] :
              \A esi_ok \in BOOLEAN, row_order \in QueryOrders :
                LET answers ==
                      EveryLookup(Len(notifications),
                                  [Answered(row_order) EXCEPT
                                      !.esi_ok = esi_ok])
                IN SameOrderPerStructure(Retimed(f, stamps)) =>
                    RunResult(Retimed(f, stamps), answers).persisted
                        = RunResult(notifications, answers).persisted

----------------------------------------------------------------------------
\* C20: calc_is_jackpot is true for an extraction with at least one product
\* whose products are all of quality EXCELLENT (dogma value 5), and false
\* when one product is of another quality or of none, in every order of
\* the products.
Excellent(product) ==
    /\ product.ore_type \in DOMAIN DogmaOreQuality
    /\ DogmaOreQuality[product.ore_type] = Number(5)

C20_JackpotIffAllExcellent ==
    valuation.done =>
        /\ ( /\ Len(valuation.products) > 0
             /\ \A i \in DOMAIN valuation.products :
                   Excellent(valuation.products[i]) )
           => valuation.is_jackpot = Some(TRUE)
        /\ (\E i \in DOMAIN valuation.products :
               ~ Excellent(valuation.products[i]))
           => valuation.is_jackpot = Some(FALSE)

\* two EXCELLENT products gave true
C20_Witness ==
    /\ valuation.done
    /\ Len(valuation.products) = 2
    /\ \A i \in DOMAIN valuation.products : Excellent(valuation.products[i])
    /\ valuation.is_jackpot = Some(TRUE)

\* an EXCELLENT product before one of another quality gave false
C20_WitnessFalse ==
    /\ valuation.done
    /\ Len(valuation.products) = 3
    /\ Excellent(valuation.products[1])
    /\ ~ Excellent(valuation.products[3])
    /\ valuation.is_jackpot = Some(FALSE)

----------------------------------------------------------------------------
\* C21: for an extraction without products calc_is_jackpot returns None
\* (unknown), neither true nor false, and update_calculated_properties
\* stores is_jackpot as None.
NoProducts == valuation.products = << >>

C21_NoProductsJackpotUnknown ==
    (valuation.done /\ NoProducts) => valuation.is_jackpot = None

----------------------------------------------------------------------------
\* C22: Moon.calc_rarity_class returns the greatest rarity class among the
\* products of the moon (NONE < R4 < R8 < R16 < R32 < R64, an ore group
\* outside the five moon ore groups counting as NONE), and for a moon
\* without products it returns NONE and raises nothing.
MoonOreGroupRarity == (1884 :> 4 @@ 1920 :> 8 @@ 1921 :> 16 @@ 1922 :> 32
                         @@ 1923 :> 64)

RarityOf(ore_type) ==
    IF EveTypeGroup[ore_type] \in DOMAIN MoonOreGroupRarity
    THEN MoonOreGroupRarity[EveTypeGroup[ore_type]] ELSE 0

\* the greatest rarity among the products, NONE (0) included
GreatestRarity(product_list) ==
    CHOOSE m \in {0} \cup { RarityOf(product_list[i].ore_type) :
                             i \in DOMAIN product_list } :
        \A i \in DOMAIN product_list : RarityOf(product_list[i].ore_type) <= m

C22_GreatestRarityOrNone ==
    (moon_valuation.moon # None /\ moon_valuation.done) =>
        /\ moon_valuation.raised = ""
        /\ moon_valuation.rarity_class
               = GreatestRarity(moon_valuation.products)

\* the part of C22 about moons that have products
C22_GreatestRarityOfProducts ==
    ( /\ moon_valuation.moon # None
      /\ moon_valuation.done
      /\ moon_valuation.products # << >> ) =>
        /\ moon_valuation.raised = ""
        /\ moon_valuation.rarity_class
               = GreatestRarity(moon_valuation.products)

----------------------------------------------------------------------------
\* C23: calc_refined_value returns 0 and raises nothing (no division by
\* zero) for an ore type whose volume per unit is 0 or missing, whatever
\* the volume and the yield.

NoUnitVolume(ore_type) ==
    EveTypeVolume[ore_type] = None \/ EveTypeVolume[ore_type] = Some(0)

C23_NoUnitVolumeGivesZero ==
    /\ valuation.done =>
         /\ \A i \in DOMAIN valuation.products :
               NoUnitVolume(valuation.products[i].ore_type) =>
                   \A y \in Yields :
                       refined_value(
                           valuation.products[i].ore_type,
                           Number(valuation.products[i].volume), y)
                         = Number(0)
         /\ (\A i \in DOMAIN valuation.products :
                NoUnitVolume(valuation.products[i].ore_type))
            => valuation.value = Some(Number(0))
    /\ (moon_valuation.done /\ moon_valuation.products # << >>) =>
         /\ moon_valuation.raised # "ZeroDivisionError"
         /\ (\A i \in DOMAIN moon_valuation.products :
                NoUnitVolume(moon_valuation.products[i].ore_type))
            => moon_valuation.value = Some(Number(0))

\* an extraction of two products, one of a type with volume 0 and one of a
\* type without volume, was valued at 0
C23_Witness ==
    /\ valuation.done
    /\ Len(valuation.products) = 2
    /\ EveTypeVolume[valuation.products[1].ore_type] = Some(0)
    /\ EveTypeVolume[valuation.products[2].ore_type] = None
    /\ valuation.products[1].volume > 0
    /\ valuation.value = Some(Number(0))

----------------------------------------------------------------------------
\* C24: in calc_refined_value a material without market price (no price
\* row, or an average price that is null or 0) adds nothing, and only that
\* material: the result is the sum over the materials that have a price,
\* and it is the number 0 when no material has one.

\* the price of a material, 0 when it has none
PriceOrZero(material) ==
    IF material \in DOMAIN EveMarketPrice /\ EveMarketPrice[material] # None
    THEN TheValue(EveMarketPrice[material]) ELSE 0

HasPrice(material) == PriceOrZero(material) # 0

\* the yield as a float, None and 0 standing for the default
YieldOf(y) ==
    IF y = None \/ y = Some(0) THEN Frac(ReprocessingYieldPct, 100)
    ELSE Frac(TheValue(y), 100)

\* every material of the type at its price, a missing price taken as 0:
\* the terms price * quantity * (volume / unit volume / 100) * yield, added
\* in the order of the materials
SumOfAllMaterials(ore_type, volume, y) ==
    LET r_units == DividedBy(DividedBy(Number(volume),
                                       Number(TheValue(EveTypeVolume[ore_type]))),
                             Number(100))
        rows == OreMaterials(ore_type)
    IN sum_of([i \in DOMAIN rows |->
           Times(Times(Times(Number(PriceOrZero(rows[i].material)),
                             Number(rows[i].quantity)),
                       r_units),
                 YieldOf(y))])

\* SumOfAllMaterials for the types that have a unit volume, calculated once
SumsOfAllMaterials ==
    [ore_type \in { o \in DOMAIN EveTypeVolume : Truthy(EveTypeVolume[o]) },
     volume \in Volumes, y \in Yields |->
        SumOfAllMaterials(ore_type, volume, y)]

C24_UnpricedMaterialAddsNothing ==
    valuation.done =>
        \A i \in DOMAIN valuation.products :
            LET p == valuation.products[i]
            IN ~ NoUnitVolume(p.ore_type) =>
                 \A y \in Yields :
                    /\ refined_value(p.ore_type, Number(p.volume), y)
                         = SumsOfAllMaterials[p.ore_type, p.volume, y]
                    /\ (\A k \in DOMAIN OreMaterials(p.ore_type) :
                           ~ HasPrice(OreMaterials(p.ore_type)[k].material))
                       => refined_value(p.ore_type, Number(p.volume), y)
                            = Number(0)

\* an extraction with one product of a type with three materials, one of
\* them without price, was valued at the two priced materials; 161 is
\* (7 * 20 + 9 * 10) * (1000 / 10 / 100) * 0.7
C24_Witness ==
    /\ valuation.done
    /\ Len(valuation.products) = 1
    /\ valuation.products[1] = [ore_type |-> 45506, volume |-> 1000]
    /\ Len(OreMaterials(45506)) = 3
    /\ \E k \in DOMAIN OreMaterials(45506) :
          ~ HasPrice(OreMaterials(45506)[k].material)
    /\ valuation.value = Some(Number(161))

----------------------------------------------------------------------------
\* C25: Extraction.calc_value and Moon.calc_value return None for an
\* extraction or a moon without product rows and a number (0 included)
\* when there is at least one product row.
C25_ValueNoneWithoutProducts ==
    /\ valuation.done =>
         /\ (valuation.products = << >>) <=> (valuation.value = None)
         /\ (valuation.products = << >>)
               <=> (calc_value(valuation.products) = None)
    /\ (moon_valuation.moon # None /\ moon_valuation.done) =>
         ((moon_valuation.products = << >>)
             <=> (Moon_calc_value(moon_valuation.products) = None))

\* the part of C25 about extractions and moons that have products
C25_ValueIsNumberWithProducts ==
    /\ (valuation.done /\ valuation.products # << >>) =>
         /\ valuation.value # None
         /\ TheValue(valuation.value) # ZeroDivisionError
    /\ ( /\ moon_valuation.moon # None
         /\ moon_valuation.done
         /\ moon_valuation.products # << >> ) =>
         /\ moon_valuation.value # None
         /\ TheValue(moon_valuation.value) # ZeroDivisionError

----------------------------------------------------------------------------
\* C26: for an ore type with a volume per unit other than 0,
\* calc_refined_value(volume, yield) is the sum over the materials that
\* have a price of price * quantity * (volume / unit volume / 100) * yield,
\* for every yield of the domain of the yield factor and for the default
\* yield; Moon.calc_value is the sum of that value over the products of
\* the moon with volume = monthly volume * amount, and
\* Extraction.calc_value the sum over the products of the extraction with
\* the volume of the product.

\* the sum, over the materials of the type that have a price, of
\* price * quantity * (volume / unit volume / 100) * yield, the yield in
\* percent
FormulaValue(ore_type, volume, yield_pct) ==
    LET r_units == DividedBy(DividedBy(Number(volume),
                                       Number(TheValue(EveTypeVolume[ore_type]))),
                             Number(100))
        rows == SelectSeq(OreMaterials(ore_type),
                          LAMBDA m : HasPrice(m.material))
    IN sum_of([i \in DOMAIN rows |->
           Times(Times(Times(Number(PriceOrZero(rows[i].material)),
                             Number(rows[i].quantity)),
                       r_units),
                 Frac(yield_pct, 100))])

\* FormulaValue for the types that have a unit volume, calculated once
FormulaValues ==
    [ore_type \in { o \in DOMAIN EveTypeVolume : Truthy(EveTypeVolume[o]) },
     volume \in Volumes, yield_pct \in {0, 50, ReprocessingYieldPct, 100} |->
        FormulaValue(ore_type, volume, yield_pct)]

IsRefinedValue(value, ore_type, volume, yield_pct) ==
    value = FormulaValues[ore_type, volume, yield_pct]

\* the yield passed to calc_refined_value, in percent (None: the default)
GivenYieldPct(y) == IF y = None THEN ReprocessingYieldPct ELSE TheValue(y)

\* the sentences about the two sums
ValueIsSumOverProducts ==
    /\ valuation.done =>
         valuation.value
           = Some(sum_of([i \in DOMAIN valuation.products |->
                    refined_value(valuation.products[i].ore_type,
                        Number(valuation.products[i].volume), None)]))
    /\ ( /\ moon_valuation.moon # None
         /\ moon_valuation.done
         /\ moon_valuation.products # << >> ) =>
         moon_valuation.value
           = Some(sum_of([i \in DOMAIN moon_valuation.products |->
                    refined_value(moon_valuation.products[i].ore_type,
                        Times(Number(VolumePerMonth),
                              Frac(moon_valuation.products[i].amount, 100)),
                        None)]))

\* the yields of the domain the specification gives the yield factor
\* (0 < yieldFactor <= 1), and None for the argument left out
SpecifiedYields ==
    { y \in Yields : y = None \/ (0 < TheValue(y) /\ TheValue(y) <= 100) }

C26_RefinedValueFormula ==
    /\ valuation.done =>
         \A i \in DOMAIN valuation.products :
            LET p == valuation.products[i]
            IN ~ NoUnitVolume(p.ore_type) =>
                 \A y \in SpecifiedYields :
                    IsRefinedValue(
                        refined_value(p.ore_type, Number(p.volume), y),
                        p.ore_type, p.volume, GivenYieldPct(y))
    /\ ValueIsSumOverProducts

\* the value of an extraction with two products of ore types that have a
\* unit volume and priced materials has been calculated: it is the sum of
\* the two values of the formula and not 0
C26_Witness ==
    /\ valuation.done
    /\ Len(valuation.products) = 2
    /\ \A i \in 1..2 : ~ NoUnitVolume(valuation.products[i].ore_type)
    /\ valuation.products[1].volume # valuation.products[2].volume
    /\ valuation.value
          = Some(Plus(Plus(Number(0),
                           FormulaValues[valuation.products[1].ore_type,
                                         valuation.products[1].volume,
                                         ReprocessingYieldPct]),
                      FormulaValues[valuation.products[2].ore_type,
                                    valuation.products[2].volume,
                                    ReprocessingYieldPct]))
    /\ \A i \in 1..2 :
          FormulaValues[valuation.products[i].ore_type,
                        valuation.products[i].volume,
                        ReprocessingYieldPct] # Number(0)

----------------------------------------------------------------------------
\* C27: no step of update_refineries_from_esi or update_extractions_from_esi
\* changes the moon of a stored refinery that has one, neither to none nor
\* to another moon: a moon is assigned only to a refinery without moon.

\* the iteration of update_refineries_from_esi that ran last
LastVisited == refinery_update.visited[Len(refinery_update.visited)]

C27_MoonLinkKept ==
    \A r \in DOMAIN refinery_moon \cap DOMAIN before.refinery_moon :
        before.refinery_moon[r] # refinery_moon[r]
            => before.refinery_moon[r] = None

\* the details of a refinery with a moon were fetched, its moon was not
\* looked up and the refinery kept its moon; a run of
\* update_extractions_from_esi had applied a notification before
C27_Witness ==
    /\ refinery_update.pc = "updating"
    /\ refinery_update.visited # << >>
    /\ LastVisited.fetch_ok
    /\ ~ LastVisited.looked_up
    /\ LastVisited.structure_id \in DOMAIN before.refinery_moon
    /\ before.refinery_moon[LastVisited.structure_id] = Some(40161708)
    /\ refinery_moon[LastVisited.structure_id] = Some(40161708)
    /\ runs > 0 /\ pc = "done" /\ applied # << >>

----------------------------------------------------------------------------
\* C28: when the nearest celestial lookup of a refinery raises OSError, the
\* refinery is stored without moon all the same, the run goes on with the
\* remaining refineries, and the next run that fetches the details of the
\* refinery looks its moon up again, as the refinery still has no moon.

\* the iteration that ran last called nearest_celestial, which raised
\* OSError
LookupRaisedOSError ==
    /\ refinery_update.visited # << >>
    /\ LastVisited.looked_up
    /\ LastVisited.nearest.raised = "OSError"

\* the ids of the structures the loop has visited, in order
RECURSIVE VisitedIds(_)
VisitedIds(visited) ==
    IF visited = << >> THEN << >>
    ELSE << Head(visited).structure_id >> \o VisitedIds(Tail(visited))

C28_LookupOSErrorLeavesRefineryWithoutMoon ==
    /\ LookupRaisedOSError =>
         /\ refinery_update.raised = ""
         /\ refinery_update.pc \in {"updating", "done"}
         /\ VisitedIds(refinery_update.visited) \o refinery_update.queue
              = refinery_update.refineries
         /\ refinery_update.pc = "done" => refinery_update.queue = << >>
    /\ (LookupRaisedOSError /\ refinery_update.pc = "updating") =>
         /\ LastVisited.structure_id \in DOMAIN refinery_moon
         /\ refinery_moon[LastVisited.structure_id] = None
    /\ ( /\ refinery_update.pc \in {"updating", "failed"}
         /\ refinery_update.visited # << >>
         /\ LastVisited.structure_id \in refinery_update.retry
         /\ LastVisited.fetch_ok
         /\ LastVisited.structure_id \in DOMAIN before.refinery_moon
         /\ before.refinery_moon[LastVisited.structure_id] = None )
       => LastVisited.looked_up

\* the second run looked up the moon of refinery 1 again, whose lookup had
\* raised OSError in the first run, and found it; refinery 2 is stored
\* with its moon as well
C28_Witness ==
    /\ refinery_update.runs = 2
    /\ refinery_update.pc = "updating"
    /\ refinery_update.retry = {1}
    /\ refinery_update.visited # << >>
    /\ LastVisited.structure_id = 1
    /\ LastVisited.looked_up
    /\ LastVisited.nearest.celestial
         = Some([eve_type |-> EVE_TYPE_ID_MOON, id |-> 40161708])
    /\ before.refinery_moon[1] = None
    /\ refinery_moon[1] = Some(40161708)
    /\ 2 \in DOMAIN refinery_moon
    /\ refinery_moon[2] = Some(40161709)

----------------------------------------------------------------------------
\* C29: when the request for the details of a structure fails with OSError,
\* update_refineries_from_esi skips that structure only: the details of
\* every other listed refinery are still requested, the run completes, and
\* a stored refinery whose request failed is kept.

\* the iteration that ran last could not fetch the details
FetchFailed ==
    /\ refinery_update.visited # << >>
    /\ ~ LastVisited.fetch_ok

C29_FetchOSErrorSkipsOneStructure ==
    /\ FetchFailed =>
         /\ refinery_update.raised = ""
         /\ refinery_update.pc \in {"updating", "done"}
    /\ (FetchFailed /\ refinery_update.pc = "updating") =>
         /\ refinery_moon = before.refinery_moon
         /\ moons = before.moons
         /\ extractions = before.extractions
         /\ VisitedIds(refinery_update.visited) \o refinery_update.queue
              = refinery_update.refineries
    /\ refinery_update.pc = "done" =>
         /\ VisitedIds(refinery_update.visited) = refinery_update.refineries
         /\ \A i \in DOMAIN refinery_update.visited :
               LET v == refinery_update.visited[i]
               IN ( /\ ~ v.fetch_ok
                    /\ v.structure_id \in DOMAIN at_start.refinery_moon )
                  => v.structure_id \in DOMAIN refinery_moon

\* a run completed in which the details of the stored refinery 1 could
\* not be fetched and those of refinery 2 were fetched afterwards:
\* refinery 1 is kept as it was, refinery 2 is stored
C29_Witness ==
    /\ refinery_update.pc = "done"
    /\ pc = "idle"
    /\ Len(refinery_update.visited) = 2
    /\ refinery_update.visited[1].structure_id = 1
    /\ ~ refinery_update.visited[1].fetch_ok
    /\ refinery_update.visited[2].structure_id = 2
    /\ refinery_update.visited[2].fetch_ok
    /\ 1 \in DOMAIN at_start.refinery_moon
    /\ 2 \notin DOMAIN at_start.refinery_moon
    /\ 1 \in DOMAIN refinery_moon
    /\ refinery_moon[1] = at_start.refinery_moon[1]
    /\ 2 \in DOMAIN refinery_moon

----------------------------------------------------------------------------
\* C30: after a run of update_refineries_from_esi that completed, every
\* stored refinery of the owner is one of the refinery structures of the
\* structure list: a refinery that is no longer listed has been deleted,
\* and every listed refinery whose details were fetched is stored.

\* the ids of the listed structures whose type is of the refinery group
ListedRefineries ==
    { refinery_update.structures[i].structure_id :
        i \in { j \in DOMAIN refinery_update.structures :
                  StructureTypeGroup[refinery_update.structures[j].type_id]
                    = EVE_GROUP_ID_REFINERY } }

C30_StoredRefineriesAreListed ==
    refinery_update.pc = "done" =>
        /\ DOMAIN refinery_moon \subseteq ListedRefineries
        /\ \A i \in DOMAIN refinery_update.visited :
              refinery_update.visited[i].fetch_ok =>
                  refinery_update.visited[i].structure_id
                      \in DOMAIN refinery_moon
        /\ \A e \in extractions : e.refinery \in DOMAIN refinery_moon

\* refinery 1 and its extraction were stored; the list named refinery 2
\* only, whose details were fetched: refinery 1 and its extraction are
\* gone, refinery 2 remains
C30_Witness ==
    /\ refinery_update.pc = "done"
    /\ pc = "idle"
    /\ refinery_update.runs = 1
    /\ ListedRefineries = {2}
    /\ Len(refinery_update.visited) = 1
    /\ refinery_update.visited[1].fetch_ok
    /\ 1 \in DOMAIN at_start.refinery_moon
    /\ \E e \in at_start.extractions : e.refinery = 1
    /\ DOMAIN refinery_moon = {2}
    /\ extractions = {}
    /\ products = {}

----------------------------------------------------------------------------
\* the loop visited a notification that names a moon, for a refinery that
\* was known and had no moon
MoonlessRefineryNotified ==
    /\ Len(applied) > 0
    /\ StructureOf(LastApplied) \in DOMAIN before.refinery_moon
    /\ before.refinery_moon[StructureOf(LastApplied)] = None
    /\ "moonID" \in DOMAIN LastApplied.text

LinkedToNotifiedMoon ==
    /\ refinery_moon[StructureOf(LastApplied)] = Some(LastApplied.text.moonID)
    /\ LastApplied.text.moonID \in moons

\* C31 as stated: a notification of any of the five types for a known
\* refinery without moon links the refinery to the moon its moonID names,
\* and the moon exists afterwards.
C31_MoonLinkedFromNotification ==
    MoonlessRefineryNotified => LinkedToNotifiedMoon

----------------------------------------------------------------------------
\* the rows of a list of products
RowsOfList(product_list) == { product_list[i] : i \in DOMAIN product_list }

\* C32: update_calculated_properties of an extraction or of a moon is
\* idempotent and writes its own derived fields only: a call changes no
\* product row, no other row of the database and not the moon it belongs
\* to, and a call that follows another one with the same products and
\* prices leaves the stored value and is_jackpot / rarity_class as they are.
C32_UpdateCalculatedPropertiesIdempotent ==
    [][ /\ Database' = Database
        /\ RowsOfList(valuation'.products) = RowsOfList(valuation.products)
        /\ RowsOfList(moon_valuation'.products)
               = RowsOfList(moon_valuation.products)
        /\ moon_valuation'.moon = moon_valuation.moon
        /\ valuation.done =>
             /\ valuation'.value = valuation.value
             /\ valuation'.is_jackpot = valuation.is_jackpot
        /\ moon_valuation.done =>
             /\ moon_valuation'.value = moon_valuation.value
             /\ moon_valuation'.rarity_class = moon_valuation.rarity_class
      ]_vars

----------------------------------------------------------------------------
\* the list the products query returns once product p was added to the
\* moon, p at position k
Inserted(product_list, k, p) ==
    SubSeq(product_list, 1, k - 1) \o << p >>
        \o SubSeq(product_list, k, Len(product_list))

\* the products that can be added to the moon: one per ore type the moon
\* does not have yet
AddableProducts ==
    { p \in [ore_type : DOMAIN EveTypeVolume, amount : Amounts] :
        \A i \in DOMAIN moon_valuation.products :
            moon_valuation.products[i].ore_type # p.ore_type }

TierOf(p) == OreRarityClass_from_eve_group_id(EveTypeGroup[p.ore_type])

\* C33: adding a product to a moon never lowers the result of
\* calc_rarity_class, and a product of a tier above the rarity the moon
\* has stored raises the result to that tier.  (For a moon without products
\* calc_rarity_class has no result to compare with; its stored rarity is
\* NONE.)
C33_AddingProductNeverLowersRarity ==
    (moon_valuation.moon # None /\ moon_valuation.done) =>
        \A p \in AddableProducts :
            \A k \in 1..(Len(moon_valuation.products) + 1) :
                LET was == Moon_calc_rarity_class(moon_valuation.products)
                    now == Moon_calc_rarity_class(
                               Inserted(moon_valuation.products, k, p))
                IN /\ now.raised = ""
                   /\ was.raised = "" =>
                        /\ moon_valuation.rarity_class = TheValue(was.result)
                        /\ TheValue(now.result) >= TheValue(was.result)
                   /\ TierOf(p) > moon_valuation.rarity_class =>
                        TheValue(now.result) = TierOf(p)

\* a moon of rarity R16 with two products: an R64 product raises the
\* result to R64 and an R4 product leaves it at R16
C33_Witness ==
    /\ moon_valuation.moon # None
    /\ moon_valuation.done
    /\ Len(moon_valuation.products) = 2
    /\ moon_valuation.rarity_class = 16
    /\ \E p \in AddableProducts :
          /\ TierOf(p) = 64
          /\ Moon_calc_rarity_class(Inserted(moon_valuation.products, 1, p))
                 = [raised |-> "", result |-> Some(64)]
    /\ \E p \in AddableProducts :
          /\ TierOf(p) = 4
          /\ Moon_calc_rarity_class(Inserted(moon_valuation.products, 3, p))
                 = [raised |-> "", result |-> Some(16)]

----------------------------------------------------------------------------
\* the class that belongs to the value of the ore-quality attribute
QualityOfValue(ore_type) ==
    IF ore_type \notin DOMAIN DogmaOreQuality THEN "UNDEFINED"
    ELSE CASE DogmaOreQuality[ore_type] = Number(1) -> "REGULAR"
           [] DogmaOreQuality[ore_type] = Number(3) -> "IMPROVED"
           [] DogmaOreQuality[ore_type] = Number(5) -> "EXCELLENT"
           [] OTHER -> "UNDEFINED"

\* C34 as stated: from_eve_type gives REGULAR for the attribute value 1,
\* IMPROVED for 3, EXCELLENT for 5 and UNDEFINED, raising nothing, for an
\* ore type without the attribute or with any other value; stated for the
\* ore types of the products whose quality calc_is_jackpot has read.
C34_QualityOfExactValue ==
    valuation.done =>
        \A i \in DOMAIN valuation.products :
            OreQualityClass_from_eve_type(valuation.products[i].ore_type)
                = QualityOfValue(valuation.products[i].ore_type)

\* the part of C34 about ore types without the attribute or with a whole
\* number as its value
C34_QualityOfWholeValue ==
    valuation.done =>
        \A i \in DOMAIN valuation.products :
            LET ore_type == valuation.products[i].ore_type
            IN ( \/ ore_type \notin DOMAIN DogmaOreQuality
                 \/ DogmaOreQuality[ore_type].e >= 0 )
               => OreQualityClass_from_eve_type(ore_type)
                      = QualityOfValue(ore_type)

----------------------------------------------------------------------------
\* the chain belongs to a call of the given origin
QueuedBy(w, origin, calls) ==
    /\ w[2] \in DOMAIN calls
    /\ calls[w[2]].origin = origin

\* C35: run_regular_updates dispatches the update for the enabled
\* corporations only: it queues no chain for a corporation that is not
\* enabled, and no step of the updates it has dispatched creates, changes
\* or deletes a refinery, an extraction or a product of such a
\* corporation, nor changes its last_update_at or last_update_ok: a step
\* that does is a step of a chain that the admin action has queued.
C35_DisabledCorporationUntouched ==
    [][ \A c \in Corporations :
          ~ update_cycle.owners[c].is_enabled =>
              /\ \A w \in Chains :
                    ( /\ w[1] = c
                      /\ QueuedBy(w, "run_regular_updates",
                                  update_cycle'.calls) )
                    => update_cycle'.chains[w] = NoTask
              /\ ( \/ RowsOf(Database', c) # RowsOf(Database, c)
                   \/ update_cycle'.owners[c] # update_cycle.owners[c] )
                 => \E w \in Chains :
                       /\ QueuedBy(w, "admin", update_cycle.calls)
                       /\ workers'[w] # workers[w]
      ]_vars

----------------------------------------------------------------------------
\* mark_successful_update of the chain that call k queued for corporation
\* c has written the Owner row; Celery has run it after the refinery
\* update and then the extraction update of that chain returned
Marked(c, k) ==
    /\ update_cycle.chains[<< c, k >>].task = "mark_successful_update"
    /\ \/ update_cycle.chains[<< c, k >>].status = "done"
       \/ workers[<< c, k >>].pc = "done"

\* the calls of run_regular_updates that have reset the update state and
\* queued their chains: the cycles that have started
CyclesStarted ==
    { k \in DOMAIN update_cycle.calls :
        /\ update_cycle.calls[k].origin = "run_regular_updates"
        /\ update_cycle.calls[k].pc = "done" }

\* C36: within a cycle that run_regular_updates has started,
\* last_update_ok of an enabled corporation is true only when the
\* refinery update, then the extraction update and then
\* mark_successful_update of the chain of that cycle have completed
\* without error; until then, and when one of the two updates has failed,
\* it is None.
C36_MarkedOnlyAfterBothUpdates ==
    \A c \in Corporations :
        ( /\ CyclesStarted # {}
          /\ update_cycle.owners[c].is_enabled ) =>
            LET k == Latest(CyclesStarted)
            IN /\ IF update_cycle.owners[c].last_update_ok = Some(TRUE)
                  THEN Marked(c, k)
                  ELSE update_cycle.owners[c].last_update_ok = None
               /\ update_cycle.chains[<< c, k >>].status = "failed" =>
                     update_cycle.owners[c].last_update_ok = None

----------------------------------------------------------------------------
\* positions of the Started notifications of structure s that the loop
\* visited before its last iteration, in the order of their timestamps
StartsOf(s) ==
    { i \in EarlierOf(s) : IsType(applied[i], "ExtractionStarted") }

\* the Started notification of the structure of the last notification that
\* the loop visited last
StartedLast == applied[Latest(StartsOf(StructureOf(LastApplied)))]

\* C37: a Cancelled notification affects at most the extraction that was
\* started last on its structure: every other extraction, those started
\* earlier on the structure included, is left as it was, with its
\* products.
C37_CancelledAffectsLastStartedOnly ==
    (Len(applied) > 0 /\ IsType(LastApplied, "ExtractionCancelled")) =>
        \A e \in before.extractions :
            ( \/ StartsOf(StructureOf(LastApplied)) = {}
              \/ KeyOf(e) # KeyOfStarted(StartedLast) )
            => /\ e \in extractions
               /\ ProductsOf(products, e.id)
                      = ProductsOf(before.products, e.id)

\* two extractions were started on structure 1 with no Finished
\* notification between them; the Cancelled notification has removed the
\* one started last and the one started first is still there
C37_Witness ==
    /\ LastCompleted
    /\ IsType(LastApplied, "ExtractionCancelled")
    /\ Len(applied) = 3
    /\ StartsOf(StructureOf(LastApplied)) = {1, 2}
    /\ KeyOfStarted(applied[1]) # KeyOfStarted(applied[2])
    /\ applied[1].timestamp < applied[2].timestamp
    /\ RowsWithKey(before.extractions, KeyOfStarted(applied[2])) # {}
    /\ RowsWithKey(extractions, KeyOfStarted(applied[2])) = {}
    /\ RowsWithKey(extractions, KeyOfStarted(applied[1])) # {}

----------------------------------------------------------------------------
\* C38: no two refineries are linked to the same moon, in any state of the
\* refinery runs and of the extraction runs; a run that tried to link a
\* refinery to a moon another refinery holds has ended with IntegrityError
\* and has left the refinery without that moon.
C38_OneRefineryPerMoon ==
    /\ \A r1, r2 \in DOMAIN refinery_moon :
          (refinery_moon[r1] # None /\ refinery_moon[r1] = refinery_moon[r2])
              => r1 = r2
    /\ \A m \in { TheValue(refinery_moon[r]) :
                    r \in { q \in DOMAIN refinery_moon :
                              refinery_moon[q] # None } } : m \in moons

\* the refinery run looked up the moon of a refinery without moon and
\* found the moon that another refinery holds: the run has ended with
\* IntegrityError and the refinery is still without moon
C38_Witness ==
    /\ refinery_update.pc = "failed"
    /\ refinery_update.raised = "IntegrityError"
    /\ LastVisited.looked_up
    /\ LastVisited.nearest.celestial # None
    /\ refinery_moon[LastVisited.structure_id] = None
    /\ \E r \in DOMAIN refinery_moon :
          /\ r # LastVisited.structure_id
          /\ refinery_moon[r]
                 = Some(TheValue(LastVisited.nearest.celestial).id)

----------------------------------------------------------------------------
\* C39: whatever Started notifications the runs have processed, no
\* extraction has two product rows of one ore type, and every product row
\* belongs to an extraction that exists.
C39_ProductsUniqueAndOwned ==
    /\ \A p1, p2 \in products :
          (p1.extraction = p2.extraction /\ p1.ore_type = p2.ore_type)
              => p1 = p2
    /\ \A p \in products : \E e \in extractions : e.id = p.extraction

\* a Started notification has named an ore type, with another volume, for
\* an extraction that had a product of that ore type: the extraction still
\* has one row for it
C39_Witness ==
    /\ LastCompleted
    /\ IsType(LastApplied, "ExtractionStarted")
    /\ \E e \in RowsWithKey(extractions, KeyOfStarted(LastApplied)) :
          \E p \in ProductsOf(before.products, e.id) :
              /\ \E item \in OrePairs(LastApplied.text.oreVolumeByType) :
                    item.ore_type = p.ore_type /\ item.volume # p.volume
              /\ Cardinality({ q \in ProductsOf(products, e.id) :
                                 q.ore_type = p.ore_type }) = 1

----------------------------------------------------------------------------
\* C40: in every state of the refinery runs and the extraction runs, in
\* whatever order they follow each other, every extraction belongs to a
\* stored refinery and every product to a stored extraction: the removal
\* of a refinery takes its extractions and their products with it.
C40_NoOrphanRows ==
    /\ \A e \in extractions : e.refinery \in DOMAIN refinery_moon
    /\ \A p \in products : \E e \in extractions : e.id = p.extraction
    /\ refinery_update.pc = "done" =>
         \A r \in DOMAIN before.refinery_moon \ DOMAIN refinery_moon :
            \A e \in before.extractions :
               e.refinery = r =>
                  /\ e \notin extractions
                  /\ ProductsOf(products, e.id) = {}

\* a refinery run has removed a refinery that had an extraction with
\* products, while the extraction of another refinery is still stored
C40_Witness ==
    /\ refinery_update.pc = "done"
    /\ \E r \in DOMAIN before.refinery_moon \ DOMAIN refinery_moon :
          \E e \in before.extractions :
             /\ e.refinery = r
             /\ ProductsOf(before.products, e.id) # {}
             /\ e \notin extractions
             /\ ProductsOf(products, e.id) = {}
    /\ extractions # {}
    /\ products # {}

====
